---- MODULE Spec2Model ----
(***************************************************************************)
(* A model of the LinguaLeo client (src/lingualeo/client.py): the session  *)
(* store (cookies, cookie file, HTTP client handle), the gateway           *)
(* operations with their re-authentication wrapper, the translation        *)
(* matcher and the add_word_with_hint engine.                              *)
(*                                                                         *)
(* Conventions.  A Python str is a sequence of one-character strings       *)
(* (<<"a","b">> is "ab"); None is the value None below.  A Python dict is  *)
(* a TLA+ function whose DOMAIN is the set of keys that are present.       *)
(* Every action is parameterised by the invocation p that runs it; an      *)
(* action is one step of the coroutine between two suspension points.      *)
(***************************************************************************)
EXTENDS Integers, Sequences, FiniteSets, TLC

(***************************************************************************)
(* Python values                                                           *)
(***************************************************************************)

\* Python's None, kept apart from every str (no str holds this character).
None == <<"<None>">>

\* bool(x) for x a str or None.
Truthy(x) == x /= None /\ x /= <<>>

\* Python's  x or y.
Or(x, y) == IF Truthy(x) THEN x ELSE y

\* dict.get(k) (None when the key is absent) and dict.get(k, default).
Get(d, k) == IF k \in DOMAIN d THEN d[k] ELSE None
GetDefault(d, k, default) == IF k \in DOMAIN d THEN d[k] ELSE default

\* str.lower() on one character of the model's alphabet.
LowerChar(c) ==
    CASE c = "A" -> "a"
      [] c = "B" -> "b"
      [] c = "C" -> "c"
      [] c = "D" -> "d"
      [] c = "W" -> "w"
      [] OTHER -> c

\* str.lower()
Lower(s) == [i \in 1..Len(s) |-> LowerChar(s[i])]

\* str.isspace() on one character.
IsSpace(c) == c = " "

RECURSIVE LStrip(_)
LStrip(s) == IF s /= <<>> /\ IsSpace(Head(s)) THEN LStrip(Tail(s)) ELSE s

RECURSIVE RStrip(_)
RStrip(s) ==
    IF s /= <<>> /\ IsSpace(s[Len(s)]) THEN RStrip(SubSeq(s, 1, Len(s) - 1)) ELSE s

\* str.strip()
Strip(s) == RStrip(LStrip(s))

\* str.split(sep) for a one-character separator: always at least one part.
RECURSIVE SplitAcc(_, _, _)
SplitAcc(s, sep, cur) ==
    IF s = <<>> THEN <<cur>>
    ELSE IF Head(s) = sep THEN <<cur>> \o SplitAcc(Tail(s), sep, <<>>)
    ELSE SplitAcc(Tail(s), sep, Append(cur, Head(s)))

Split(s, sep) == SplitAcc(s, sep, <<>>)

Range(xs) == {xs[i] : i \in 1..Len(xs)}

(***************************************************************************)
(* difflib.SequenceMatcher(a, b).ratio() with no junk (strings shorter     *)
(* than 200 characters): 2 * M / T, M the characters in matching blocks.   *)
(* Positions are 1-based; a block is a[i..i+k-1] = b[j..j+k-1].            *)
(***************************************************************************)

\* Length of the common run of a from i and b from j, inside a[..ahi], b[..bhi].
RECURSIVE RunLen(_, _, _, _, _, _)
RunLen(a, b, i, j, ahi, bhi) ==
    IF i <= ahi /\ j <= bhi /\ a[i] = b[j]
    THEN 1 + RunLen(a, b, i + 1, j + 1, ahi, bhi)
    ELSE 0

\* find_longest_match: the longest block; of those the earliest in a; of
\* those the earliest in b.  <<i, j, k>>, k = 0 when nothing matches.
FindLongestMatch(a, b, alo, ahi, blo, bhi) ==
    LET blocks == {<<i, j, RunLen(a, b, i, j, ahi, bhi)>> : i \in alo..ahi, j \in blo..bhi}
        found  == {t \in blocks : t[3] > 0}
        better(t, u) == \/ t[3] > u[3]
                        \/ t[3] = u[3] /\ t[1] < u[1]
                        \/ t[3] = u[3] /\ t[1] = u[1] /\ t[2] <= u[2]
    IN  IF found = {} THEN <<alo, blo, 0>>
        ELSE CHOOSE t \in found : \A u \in found : better(t, u)

\* get_matching_blocks, summed: the block, then the parts left and right of it.
RECURSIVE MatchCount(_, _, _, _, _, _)
MatchCount(a, b, alo, ahi, blo, bhi) ==
    IF alo > ahi \/ blo > bhi THEN 0
    ELSE LET m == FindLongestMatch(a, b, alo, ahi, blo, bhi)
         IN  IF m[3] = 0 THEN 0
             ELSE m[3]
                  + MatchCount(a, b, alo, m[1] - 1, blo, m[2] - 1)
                  + MatchCount(a, b, m[1] + m[3], ahi, m[2] + m[3], bhi)

\* ratio() as the exact fraction <<numerator, denominator>> = <<2M, T>>;
\* 1.0 for two empty strings.
Ratio(a, b) ==
    IF Len(a) + Len(b) = 0 THEN <<1, 1>>
    ELSE <<2 * MatchCount(a, b, 1, Len(a), 1, Len(b)), Len(a) + Len(b)>>

\* Comparisons of scores (fractions with positive denominators; -1.0 is <<-1, 1>>).
ScoreGT(x, y) == x[1] * y[2] > y[1] * x[2]
ScoreGE(x, y) == x[1] * y[2] >= y[1] * x[2]

\* The default threshold 0.8 of select_best_translation, as the fraction 4/5.
DEFAULT_THRESHOLD == <<4, 5>>

(***************************************************************************)
(* Pure helpers of client.py                                               *)
(***************************************************************************)

\* An optional value: <<>> is "no value", <<x>> holds x.
Nothing == <<>>
Some(x) == <<x>>

\* bool(d) for a dict d.
DictTruthy(d) == DOMAIN d /= {}

\* dict.update: the keys of e overwrite those of d.
DictUpdate(d, e) ==
    [k \in DOMAIN d \cup DOMAIN e |-> IF k \in DOMAIN e THEN e[k] ELSE d[k]]

\* The first position of character c in s, 0 when s has none.
RECURSIVE IndexFrom(_, _, _)
IndexFrom(s, c, i) ==
    IF i > Len(s) THEN 0 ELSE IF s[i] = c THEN i ELSE IndexFrom(s, c, i + 1)

IndexOf(s, c) == IndexFrom(s, c, 1)

\* parse_cookie_string: the parts between semicolons that have an "=",
\* split at the first "=", name and value stripped; a later part with the
\* same name overwrites an earlier one.
RECURSIVE ParseCookieParts(_, _)
ParseCookieParts(parts, cookies) ==
    IF parts = <<>> THEN cookies
    ELSE LET part == Strip(Head(parts))
             eq == IndexOf(part, "=")
         IN  IF part = <<>> \/ eq = 0
             THEN ParseCookieParts(Tail(parts), cookies)
             ELSE ParseCookieParts(Tail(parts),
                      DictUpdate(cookies,
                          [n \in {Strip(SubSeq(part, 1, eq - 1))} |->
                              Strip(SubSeq(part, eq + 1, Len(part)))]))

parse_cookie_string(raw) == ParseCookieParts(Split(raw, ";"), <<>>)

\* json.dumps(cookies, indent=2, ensure_ascii=False) for a dict of str to
\* str: "{}" for the empty dict, else one item per line, indented by two
\* spaces; in a string the quote, the backslash and the newline are escaped.
RECURSIVE JsonEscape(_)
JsonEscape(s) ==
    IF s = <<>> THEN <<>>
    ELSE (IF Head(s) \in {"\"", "\\"} THEN <<"\\", Head(s)>>
          ELSE IF Head(s) = "\n" THEN <<"\\", "n">>
          ELSE <<Head(s)>>) \o JsonEscape(Tail(s))

JsonString(s) == <<"\"">> \o JsonEscape(s) \o <<"\"">>

\* The items of d for the keys given; the order of a dict's items is its
\* insertion order, which a reader of the file does not depend on.
RECURSIVE JsonItems(_, _)
JsonItems(d, keys) ==
    IF keys = {} THEN <<>>
    ELSE LET k == CHOOSE x \in keys : TRUE
             rest == keys \ {k}
         IN  <<"\n", " ", " ">> \o JsonString(k) \o <<":", " ">> \o JsonString(d[k])
             \o (IF rest = {} THEN <<"\n">> ELSE <<",">>)
             \o JsonItems(d, rest)

json_dumps(d) ==
    IF DOMAIN d = {} THEN <<"{", "}">>
    ELSE <<"{">> \o JsonItems(d, DOMAIN d) \o <<"}">>

\* json.loads, on the texts the model has: an object whose keys and values
\* are strings decodes to a dict, the empty array and a string to a value
\* that is no dict, anything else raises JSONDecodeError.
RECURSIVE SkipWs(_, _)
SkipWs(t, i) == IF i <= Len(t) /\ t[i] \in {" ", "\n"} THEN SkipWs(t, i + 1) ELSE i

\* The string whose opening quote is before t[i]: <<TRUE, value, next
\* position>>, or <<FALSE>> when it is not terminated or wrongly escaped.
RECURSIVE ScanString(_, _, _)
ScanString(t, i, acc) ==
    IF i > Len(t) THEN <<FALSE>>
    ELSE IF t[i] = "\"" THEN <<TRUE, acc, i + 1>>
    ELSE IF t[i] = "\n" THEN <<FALSE>>
    ELSE IF t[i] = "\\"
    THEN IF i + 1 <= Len(t) /\ t[i + 1] \in {"\"", "\\"}
         THEN ScanString(t, i + 2, Append(acc, t[i + 1]))
         ELSE IF i + 1 <= Len(t) /\ t[i + 1] = "n"
         THEN ScanString(t, i + 2, Append(acc, "\n"))
         ELSE <<FALSE>>
    ELSE ScanString(t, i + 1, Append(acc, t[i]))

ParseString(t, i) ==
    IF i <= Len(t) /\ t[i] = "\"" THEN ScanString(t, i + 1, <<>>) ELSE <<FALSE>>

\* The members of an object from t[i] to its closing brace: <<TRUE, dict,
\* next position>> or <<FALSE>>; a repeated key keeps its last value.
RECURSIVE ParseMembers(_, _, _)
ParseMembers(t, i, d) ==
    LET k == ParseString(t, SkipWs(t, i)) IN
    IF ~k[1] THEN <<FALSE>>
    ELSE LET c == SkipWs(t, k[3]) IN
         IF c > Len(t) \/ t[c] /= ":" THEN <<FALSE>>
         ELSE LET v == ParseString(t, SkipWs(t, c + 1)) IN
              IF ~v[1] THEN <<FALSE>>
              ELSE LET e == SkipWs(t, v[3])
                       d2 == DictUpdate(d, [x \in {k[2]} |-> v[2]])
                   IN  IF e > Len(t) THEN <<FALSE>>
                       ELSE IF t[e] = "," THEN ParseMembers(t, e + 1, d2)
                       ELSE IF t[e] = "}" THEN <<TRUE, d2, e + 1>>
                       ELSE <<FALSE>>

JSONDecodeError == [kind |-> "JSONDecodeError"]

\* The value decoded, when nothing but whitespace follows it.
JsonEnd(t, next, value) == IF SkipWs(t, next) > Len(t) THEN value ELSE JSONDecodeError

json_loads(t) ==
    LET i == SkipWs(t, 1) IN
    IF i > Len(t) THEN JSONDecodeError
    ELSE IF t[i] = "{"
    THEN LET j == SkipWs(t, i + 1) IN
         IF j <= Len(t) /\ t[j] = "}"
         THEN JsonEnd(t, j + 1, [kind |-> "dict", value |-> <<>>])
         ELSE LET m == ParseMembers(t, i + 1, <<>>) IN
              IF m[1] THEN JsonEnd(t, m[3], [kind |-> "dict", value |-> m[2]])
              ELSE JSONDecodeError
    ELSE IF t[i] = "["
    THEN LET j == SkipWs(t, i + 1) IN
         IF j <= Len(t) /\ t[j] = "]" THEN JsonEnd(t, j + 1, [kind |-> "list"])
         ELSE JSONDecodeError
    ELSE LET q == ParseString(t, i) IN
         IF q[1] THEN JsonEnd(t, q[3], [kind |-> "str"]) ELSE JSONDecodeError

\* The cookie file on disk: absent, a file whose bytes are not UTF-8, or a
\* file with a text.
AbsentFile == [kind |-> "absent"]
UndecodableFile == [kind |-> "bytes"]
TextFile(text) == [kind |-> "text", text |-> text]

\* What a function gives its caller: a value, or an exception.
Returned(value) == [kind |-> "returned", value |-> value]

Failed(error) == [kind |-> "raised", error |-> error]

\* A variant of _load_cookie_file that catches every error of the read.
load_cookie_file_silent(file) ==
    IF file.kind /= "text" THEN Returned(<<>>)
    ELSE LET data == json_loads(file.text)
         IN  Returned(IF data.kind = "dict" THEN data.value ELSE <<>>)

\* _load_cookie_file: no cookies when the file does not exist, and when
\* json.loads raises JSONDecodeError or the read raises OSError;
\* read_text(encoding="utf-8") raises UnicodeDecodeError, which is neither,
\* on bytes that are not UTF-8.  A decoded dict is returned, any other
\* decoded value gives no cookies.
_load_cookie_file(file) ==
    IF file.kind = "absent" THEN Returned(<<>>)
    ELSE IF file.kind = "bytes" THEN Failed("UnicodeDecodeError")
    ELSE LET data == json_loads(file.text)
         IN  Returned(IF data.kind = "dict" THEN data.value ELSE <<>>)

\* A variant of the save that merges the cookies into what the file has.
write_text_merged(file, cookies) ==
    LET before == load_cookie_file_silent(file).value
    IN  TextFile(json_dumps(DictUpdate(before, cookies)))

\* path.write_text(json.dumps(cookies, ...)) of _save_cookie_file: the file
\* afterwards, whatever it was before.
write_text(file, cookies) == TextFile(json_dumps(cookies))

\* The display text select_best_translation compares: value, else tr, else "".
CandidateText(candidate) == Or(Or(Get(candidate, "value"), Get(candidate, "tr")), <<>>)

\* Variants of the loop: one scores the candidates without display text
\* like the others; one lets a later candidate with an equal score replace
\* the best so far.
RECURSIVE SelectBestLoopNoSkip(_, _, _, _)
SelectBestLoopNoSkip(candidates, desired_lower, best, best_score) ==
    IF candidates = <<>> THEN <<best, best_score>>
    ELSE LET candidate == Head(candidates)
             text == Lower(CandidateText(candidate))
             score == Ratio(desired_lower, text)
         IN  IF ScoreGT(score, best_score)
             THEN SelectBestLoopNoSkip(Tail(candidates), desired_lower, Some(candidate), score)
             ELSE SelectBestLoopNoSkip(Tail(candidates), desired_lower, best, best_score)

RECURSIVE SelectBestLoopLast(_, _, _, _)
SelectBestLoopLast(candidates, desired_lower, best, best_score) ==
    IF candidates = <<>> THEN <<best, best_score>>
    ELSE LET candidate == Head(candidates)
             text == Lower(CandidateText(candidate))
             score == Ratio(desired_lower, text)
         IN  IF text = <<>>
             THEN SelectBestLoopLast(Tail(candidates), desired_lower, best, best_score)
             ELSE IF ScoreGE(score, best_score)
             THEN SelectBestLoopLast(Tail(candidates), desired_lower, Some(candidate), score)
             ELSE SelectBestLoopLast(Tail(candidates), desired_lower, best, best_score)

\* The loop of select_best_translation: <<best, best_score>> after the candidates.
RECURSIVE SelectBestLoop(_, _, _, _)
SelectBestLoop(candidates, desired_lower, best, best_score) ==
    IF candidates = <<>> THEN <<best, best_score>>
    ELSE LET candidate == Head(candidates)
             text == Lower(CandidateText(candidate))
             score == Ratio(desired_lower, text)
         IN  IF text = <<>>
             THEN SelectBestLoop(Tail(candidates), desired_lower, best, best_score)
             ELSE IF ScoreGT(score, best_score)
             THEN SelectBestLoop(Tail(candidates), desired_lower, Some(candidate), score)
             ELSE SelectBestLoop(Tail(candidates), desired_lower, best, best_score)

\* A variant that returns the best candidate whatever its score.
select_best_unconditional(candidates, desired, threshold) ==
    IF ~Truthy(desired) THEN Nothing
    ELSE SelectBestLoop(candidates, Lower(desired), Nothing, <<-1, 1>>)[1]

select_best_translation(candidates, desired, threshold) ==
    IF ~Truthy(desired) THEN Nothing
    ELSE LET r == SelectBestLoop(candidates, Lower(desired), Nothing, <<-1, 1>>)
         IN  IF ScoreGE(r[2], threshold) THEN r[1] ELSE Nothing

\* [t.strip() for t in parts if t.strip()]
RECURSIVE StripNonEmpty(_)
StripNonEmpty(parts) ==
    IF parts = <<>> THEN <<>>
    ELSE IF Strip(Head(parts)) /= <<>>
    THEN <<Strip(Head(parts))>> \o StripNonEmpty(Tail(parts))
    ELSE StripNonEmpty(Tail(parts))

\* The texts of the structured translations list, stripped, the empty ones dropped.
RECURSIVE TransListTexts(_)
TransListTexts(trans_list) ==
    IF trans_list = <<>> THEN <<>>
    ELSE LET text == Or(Or(Get(Head(trans_list), "value"), Get(Head(trans_list), "tr")), <<>>)
         IN  IF Truthy(text) /\ Strip(text) /= <<>>
             THEN <<Strip(text)>> \o TransListTexts(Tail(trans_list))
             ELSE TransListTexts(Tail(trans_list))

\* A variant that removes only the duplicates that are equal as they are.
RECURSIVE UniqueExact(_, _)
UniqueExact(translations, seen) ==
    IF translations = <<>> THEN <<>>
    ELSE IF Head(translations) \in seen
    THEN UniqueExact(Tail(translations), seen)
    ELSE <<Head(translations)>> \o UniqueExact(Tail(translations), seen \cup {Head(translations)})

\* Remove duplicates (by lower()) while preserving order.
RECURSIVE Unique(_, _)
Unique(translations, seen) ==
    IF translations = <<>> THEN <<>>
    ELSE IF Lower(Head(translations)) \in seen
    THEN Unique(Tail(translations), seen)
    ELSE <<Head(translations)>> \o Unique(Tail(translations), seen \cup {Lower(Head(translations))})

extract_existing_translations(word_data) ==
    LET combined == GetDefault(word_data, "combinedTranslation", <<>>)
        fromCombined == IF Truthy(combined) THEN StripNonEmpty(Split(combined, ";")) ELSE <<>>
        \* word_data.get("translations") or []: a null list is an absent key here
        trans_list == GetDefault(word_data, "translations", <<>>)
    IN  Unique(fromCombined \o TransListTexts(trans_list), {})

\* A variant that compares the texts as they are, without lower() and strip().
translation_exists_verbatim(existing_translations, hint) ==
    \E i \in 1..Len(existing_translations) : existing_translations[i] = hint

\* A variant that also accepts a hint some existing translation starts with.
translation_exists_prefix(existing_translations, hint) ==
    LET hint_lower == Strip(Lower(hint))
    IN  \E i \in 1..Len(existing_translations) :
            LET t == Strip(Lower(existing_translations[i]))
            IN  Len(t) >= Len(hint_lower) /\ SubSeq(t, 1, Len(hint_lower)) = hint_lower

translation_exists(existing_translations, hint) ==
    LET hint_lower == Strip(Lower(hint))
    IN  \E i \in 1..Len(existing_translations) :
            Strip(Lower(existing_translations[i])) = hint_lower

\* Statuses on which _with_reauth logs in again and retries.
REAUTH_STATUSES == {400, 401, 403}

\* A variant that also re-authenticates on a server error.
should_reauth_on_5xx(status_code) == status_code \in REAUTH_STATUSES \cup {500}

\* status_code in {400, 401, 403}; status 0 stands for "no response" (None).
_should_reauth(status_code) == status_code \in REAUTH_STATUSES

\* hash(str): fixed within one process, different from process to process
\* (the interpreter's hash seed); any signed integer may come out.
CharCode(c) ==
    CASE c = "a" -> 97 [] c = "b" -> 98 [] c = "c" -> 99 [] c = "d" -> 100
      [] c = "A" -> 65 [] c = "B" -> 66 [] c = "C" -> 67 [] c = "D" -> 68
      [] c = " " -> 32 [] OTHER -> 1

RECURSIVE StrHashAcc(_, _)
StrHashAcc(s, h) ==
    IF s = <<>> THEN h ELSE StrHashAcc(Tail(s), (h * 31 + CharCode(Head(s))) % 1048576)

PyHash(seed, s) == StrHashAcc(s, seed) * 2003 - 1073741824

\* The hash seeds of the processes considered.
HashSeeds == {5}

\* A variant with the remainder of a language whose % takes the sign of
\* the dividend, and no negation.
CustomIdTruncated(seed, translation_hint) ==
    LET h == PyHash(seed, translation_hint)
    IN  IF h < 0 THEN -((-h) % (10 ^ 9)) ELSE h % (10 ^ 9)

\* custom_id = hash(translation_hint) % (10**9), negated when negative.
CustomId(seed, translation_hint) ==
    LET custom_id == PyHash(seed, translation_hint) % (10 ^ 9)
    IN  IF custom_id < 0 THEN -custom_id ELSE custom_id

\* A variant that normalises the hint before it puts it in the object.
CustomTranslationNormalised(seed, translation_hint) ==
    [id |-> CustomId(seed, translation_hint),
     value |-> Strip(Lower(translation_hint)),
     tr |-> Strip(Lower(translation_hint)),
     main |-> 1,
     selected |-> 1]

\* The custom translation object made from a hint no candidate matches.
CustomTranslation(seed, translation_hint) ==
    [id |-> CustomId(seed, translation_hint),
     value |-> translation_hint,
     tr |-> translation_hint,
     main |-> 1,
     selected |-> 1]

\* The translation block _call_set_words puts in the request; translation["id"]
\* raises KeyError when the key is absent (the caller checks that first).
TranslationBlock(translation) ==
    [id |-> translation["id"],
     tr |-> Or(Get(translation, "value"), Get(translation, "tr")),
     main |-> GetDefault(translation, "main", 1),
     selected |-> GetDefault(translation, "selected", 1)]

\* A variant of the match that looks at wordValue only.
WordMatchesValueOnly(word_data, word_lower) ==
    Strip(Lower(GetDefault(word_data, "wordValue", <<>>))) = word_lower

\* The scan of get_word_data over the groups of a GetWords response and the
\* words of each group: the first record whose wordValue or wordLemmaValue
\* is the query, both lowercased and stripped.
WordMatches(word_data, word_lower) ==
    LET word_value == Strip(Lower(GetDefault(word_data, "wordValue", <<>>)))
        word_lemma_raw == GetDefault(word_data, "wordLemmaValue", <<>>)
        word_lemma == IF Truthy(word_lemma_raw) THEN Strip(Lower(word_lemma_raw)) ELSE None
    IN  \/ word_value = word_lower
        \/ Truthy(word_lemma) /\ word_lemma = word_lower

RECURSIVE ScanWords(_, _)
ScanWords(words, word_lower) ==
    IF words = <<>> THEN Nothing
    ELSE IF WordMatches(Head(words), word_lower) THEN Some(Head(words))
    ELSE ScanWords(Tail(words), word_lower)

RECURSIVE ScanGroups(_, _)
ScanGroups(data, word_lower) ==
    IF data = <<>> THEN Nothing
    ELSE LET hit == ScanWords(GetDefault(Head(data), "words", <<>>), word_lower)
         IN  IF hit /= Nothing THEN hit ELSE ScanGroups(Tail(data), word_lower)

\* What get_word_data makes of a decoded GetWords response.
WordDataOf(response, word) ==
    IF GetDefault(response, "status", "") /= "ok" THEN Nothing
    ELSE LET data == GetDefault(response, "data", <<>>)
         IN  IF data = <<>> THEN Nothing
             ELSE ScanGroups(data, Strip(Lower(word)))

\* translate_payload.get("translate") or translate_payload.get("translations") or []
CandidatesOf(translate_payload) ==
    LET a == GetDefault(translate_payload, "translate", <<>>)
        b == GetDefault(translate_payload, "translations", <<>>)
    IN  IF a /= <<>> THEN a ELSE b

(***************************************************************************)
(* The environment: callers' inputs and what the remote may answer          *)
(***************************************************************************)

\* The invocations that may be in flight on the one shared client.
Procs == {1, 2}

\* add_word_with_hint invocations made in one behaviour.
MaxInvocations == 1

\* The word the callers submit: "W", which the lookup reads as "w".
Words == {<<"W">>}

\* Hints the callers supply: None, "", " ", "ab", " AB ", "cd".
Hints == {None, <<>>, <<" ">>, <<"a", "b">>, <<" ", "A", "B", " ">>, <<"c", "d">>}

\* Translation candidates the remote may return.
CandAbc == [id |-> 1001, value |-> <<"a", "b", "c">>, tr |-> <<"a", "b", "c">>, main |-> 1, selected |-> 0]
CandD == [id |-> 1002, value |-> <<"d">>, tr |-> <<"d">>, main |-> 0, selected |-> 0]
CandTrOnly == [id |-> 1003, tr |-> <<"A", "b">>]
CandNoText == [id |-> 1004, value |-> <<>>]
CandNoId == [value |-> <<"c", "d">>]

\* Bodies of a 2xx getTranslates response ("malformed" does not decode).
TranslatePayloads ==
    {[translate |-> <<>>],
     [translate |-> <<CandAbc, CandD>>],
     [translations |-> <<CandD, CandTrOnly>>],
     [translate |-> <<CandNoText, CandD>>],
     [translate |-> <<CandNoId>>]}

\* Word records of the remote container.
RecW == [wordValue |-> <<"w", " ">>, wordLemmaValue |-> <<"x">>,
         combinedTranslation |-> <<"a", "b", ";", " ", "d">>]
RecLemma == [wordValue |-> <<"w", "d">>, wordLemmaValue |-> <<" ", "w">>,
             combinedTranslation |-> <<>>, translations |-> <<[value |-> <<"d">>]>>]
RecOther == [wordValue |-> <<"d">>, wordLemmaValue |-> <<>>,
             combinedTranslation |-> <<"a", "b">>]

\* The container's contents when the client starts.
InitialRemotes == {<<>>, <<RecW>>, <<RecOther, RecLemma>>, <<RecOther>>}

\* HTTP statuses raise_for_status turns into HTTPStatusError.
HttpErrorStatuses == {400, 401, 403, 404, 500}

\* Cookies: one session cookie, whose value the server may rotate or blank.
CookieNames == {"sid"}
ServerCookieValues == {"v2", ""}
NoCookies == [k \in {} |-> ""]
SetCookies ==
    {NoCookies} \cup {[k \in {n} |-> v] : n \in CookieNames, v \in ServerCookieValues}

\* What the constructor may find: the parsed cookie_string and the cookie file.
CookieStrings == {NoCookies, [sid |-> "v1"]}
CookieFiles == {NoCookies, [sid |-> "v2"]}

\* The server's record after an "add" of translation text tr to word.
RemoteWordIs(rec, word) == Strip(Lower(GetDefault(rec, "wordValue", <<>>))) = Strip(Lower(word))

RemoteAdd(container, word, tr) ==
    IF ~Truthy(tr) THEN container
    ELSE IF \E i \in 1..Len(container) : RemoteWordIs(container[i], word)
    THEN LET i == CHOOSE i \in 1..Len(container) : RemoteWordIs(container[i], word)
             old == GetDefault(container[i], "combinedTranslation", <<>>)
             had == \E j \in 1..Len(StripNonEmpty(Split(old, ";"))) :
                        StripNonEmpty(Split(old, ";"))[j] = tr
         IN  IF had THEN container
             ELSE [container EXCEPT ![i] =
                      DictUpdate(@, [combinedTranslation |->
                          IF old = <<>> THEN tr ELSE old \o <<";", " ">> \o tr])]
    ELSE Append(container, [wordValue |-> word, wordLemmaValue |-> word,
                            combinedTranslation |-> tr])

\* The groups of a GetWords answer with status ok: the container's records,
\* possibly after an empty group.
SearchDatas(container) ==
    IF container = <<>> THEN {<<>>, <<[groupName |-> "search", words |-> <<>>]>>}
    ELSE {<<[groupName |-> "search", words |-> container]>>,
          <<[groupName |-> "new"], [groupName |-> "search", words |-> container]>>}

(***************************************************************************)
(* State                                                                   *)
(***************************************************************************)

VARIABLES
    cookies,      \* self._cookies
    jar,          \* self.client.cookies (meaningful while the client is open)
    client,       \* self.client: "None" or "open"
    cookie_file,  \* the contents _load_cookie_file reads back from self.cookie_file
    hash_seed,    \* the process's str hash seed
    remote,       \* the remote container: its word records
    invocations,  \* add_word_with_hint invocations started so far
    frame,        \* per invocation: the coroutine's position and locals
    env,          \* the run's surroundings, fixed at construction (see Env)
    call          \* a call of one of the module's functions, observed on its own

vars == <<cookies, jar, client, cookie_file, hash_seed, remote, invocations, frame, env, call>>

\* No function call is being observed.
NoCall == [fn |-> "none"]

\* The surroundings of a run: whether the server sets cookies in its
\* answers, whether the invocation's frame keeps the list of the HTTP
\* requests it has sent and the status field of the search answer it has
\* decoded, and the cookie_string the constructor was given (None when the
\* run does not keep it).
Env(rotates, traced, cookie_string) ==
    [rotates |-> rotates, traced |-> traced, cookie_string |-> cookie_string]

\* An HTTP exchange as the client sees it: a RequestError (no response), an
\* error status, or a 2xx answer with a body, which may set cookies.
Responses(bodies) ==
    {[kind |-> "request_error"]}
    \cup {[kind |-> "status_error", status |-> st] : st \in HttpErrorStatuses}
    \cup {[kind |-> "ok", set_cookie |-> sc, body |-> b] :
             sc \in IF env.rotates THEN SetCookies ELSE {NoCookies}, b \in bodies}

\* An HTTP request of this kind has been sent by the invocation of frame f.
Sent(f, kind) ==
    IF env.traced THEN [f EXCEPT !.requests = Append(@, kind)] ELSE f

Pending == [kind |-> "pending"]

\* The history of the _with_reauth call in progress: the exception its first
\* attempt raised, the logins it made (and whether one returned), the calls
\* of the wrapped function it made (with their arguments), and the
\* exception its retry raised.
NoWrapper ==
    [first_exc |-> Nothing, logins |-> 0, login_ok |-> FALSE, attempted |-> <<>>,
     retry_exc |-> Nothing]

IdleFrame ==
    [pc |-> "idle", op |-> "none",
     word |-> <<>>, translation_hint |-> None,
     word_data |-> Nothing, translate_payload |-> Nothing,
     match |-> Nothing, auto_selected |-> FALSE,
     response |-> Nothing, result |-> Pending,
     wrapper |-> NoWrapper,
     calls |-> <<>>, written |-> <<>>,
     requests |-> <<>>, search_status |-> Nothing]

\* __init__: the cookie string first, then the cookie file over it.
InitCookies(cookie_string, file) == DictUpdate(cookie_string, file)

Init ==
    /\ \E cs \in CookieStrings, cf \in CookieFiles :
          /\ cookies = InitCookies(cs, cf)
          /\ cookie_file = cf
    /\ jar = NoCookies
    /\ client = "None"
    /\ hash_seed \in HashSeeds
    /\ remote \in InitialRemotes
    /\ invocations = 0
    /\ frame = [p \in Procs |-> IdleFrame]
    /\ env = Env(TRUE, FALSE, None)
    /\ call = NoCall

(***************************************************************************)
(* Session store and HTTP client handle                                    *)
(***************************************************************************)

\* _ensure_client: a new client starts with the cookies of self._cookies.
EnsuredJar == IF client = "None" THEN cookies ELSE jar

\* A variant of _save_cookie_file that leaves the file as it is.
save_cookie_file_skipped(file, cs) == file

\* _save_cookie_file: the file is overwritten; what _load_cookie_file would
\* read back afterwards is the dict that was saved.
_save_cookie_file(file, cs) == cs

\* _sync_cookies_from_client: every cookie of the jar with a non-empty value.
SyncFromClient(cs, j) ==
    DictUpdate(cs, [k \in {n \in DOMAIN j : j[n] /= ""} |-> j[k]])

\* The jar after a response: httpx stores the cookies the response sets.
JarAfter(j, resp) == IF resp.kind = "ok" THEN DictUpdate(j, resp.set_cookie) ELSE j

\* The exception an exchange raises (raise_for_status, or the RequestError).
ExcOf(resp) ==
    IF resp.kind = "status_error"
    THEN [error |-> "HTTPStatusError", status |-> resp.status, message |-> ""]
    ELSE [error |-> "RequestError", status |-> 0, message |-> ""]

Exception(error) == [error |-> error, status |-> 0, message |-> ""]

LinguaLeoError(message) == [error |-> "LinguaLeoError", status |-> 0, message |-> message]

Raised(exc) ==
    [kind |-> "raised", error |-> exc.error, status |-> exc.status, message |-> exc.message]

\* An exception leaving add_word_with_hint: the caller gets it.
Raise(f, exc) == [f EXCEPT !.pc = "done", !.result = Raised(exc)]

\* A variant in which every gateway method swallows what its wrapped call
\* raises, the way get_word_data does.
ThrowSwallowing(f, exc) ==
    IF f.pc /= "ensure_login"
    THEN [f EXCEPT !.pc = "decide", !.word_data = Nothing]
    ELSE Raise(f, exc)

\* Variants of what becomes of an exception leaving a gateway method: in
\* one get_word_data catches nothing; in one the login made by the wrapper
\* is outside get_word_data's try block as well; in one get_translates
\* falls back to an empty candidate list.
ThrowPropagating(f, exc) == Raise(f, exc)

ThrowFromRelogin(f, exc) ==
    IF f.op = "search" /\ f.pc \notin {"ensure_login", "relogin"}
    THEN [f EXCEPT !.pc = "decide", !.word_data = Nothing]
    ELSE Raise(f, exc)

ThrowEmptyCandidates(f, exc) ==
    IF f.op = "search" /\ f.pc /= "ensure_login"
    THEN [f EXCEPT !.pc = "decide", !.word_data = Nothing]
    ELSE IF f.op = "translate" /\ f.pc /= "ensure_login"
    THEN [f EXCEPT !.pc = "resolve", !.translate_payload = Some([translate |-> <<>>])]
    ELSE Raise(f, exc)

\* An exception leaving a gateway method (get_word_data, get_translates,
\* add_word).  get_word_data catches whatever is raised inside its try block
\* (the wrapped call) and returns None; ensure_authenticated is outside that
\* block.  Everything else propagates out of add_word_with_hint.
Throw(f, exc) ==
    IF f.op = "search" /\ f.pc /= "ensure_login"
    THEN [f EXCEPT !.pc = "decide", !.word_data = Nothing]
    ELSE Raise(f, exc)

\* A variant of the wrapper that logs in again whenever an attempt, the
\* retry included, fails with a re-authentication status.
with_reauth_unbounded(f, exc) ==
    LET g == IF f.pc = "attempt"
             THEN [f EXCEPT !.wrapper.first_exc = Some(exc)]
             ELSE [f EXCEPT !.wrapper.retry_exc = Some(exc)]
    IN  IF exc.error = "HTTPStatusError" /\ _should_reauth(exc.status)
        THEN [g EXCEPT !.pc = "relogin"]
        ELSE Throw(g, exc)

\* A variant of the wrapper that retries without logging in.
with_reauth_no_login(f, exc) ==
    IF f.pc = "attempt"
    THEN LET g == [f EXCEPT !.wrapper.first_exc = Some(exc)]
         IN  IF exc.error = "HTTPStatusError" /\ _should_reauth(exc.status)
             THEN [g EXCEPT !.pc = "retry", !.wrapper.logins = 1, !.wrapper.login_ok = TRUE]
             ELSE Throw(g, exc)
    ELSE Throw([f EXCEPT !.wrapper.retry_exc = Some(exc)], exc)

\* _with_reauth, on an exception of the wrapped call: after the first attempt
\* an HTTPStatusError with a re-authentication status leads to login();
\* anything else, and anything the retry raises, propagates.
_with_reauth(f, exc) ==
    IF f.pc = "attempt"
    THEN LET g == [f EXCEPT !.wrapper.first_exc = Some(exc)]
         IN  IF exc.error = "HTTPStatusError" /\ _should_reauth(exc.status)
             THEN [g EXCEPT !.pc = "relogin"]
             ELSE Throw(g, exc)
    ELSE Throw([f EXCEPT !.wrapper.retry_exc = Some(exc)], exc)

\* Entering a gateway method (get_word_data, get_translates, add_word).
Enter(f, op) ==
    [f EXCEPT !.pc = "ensure", !.op = op, !.wrapper = NoWrapper,
              !.calls = Append(@, op)]

(***************************************************************************)
(* Gateway: ensure_authenticated, login and the three wrapped calls        *)
(***************************************************************************)

\* A variant of ensure_authenticated that logs in whether or not the
\* client has cookies.
ensure_authenticated_always_login(p) ==
    LET f == frame[p] IN
    /\ f.pc = "ensure"
    /\ client' = "open"
    /\ jar' = EnsuredJar
    /\ frame' = [frame EXCEPT ![p].pc = "ensure_login"]
    /\ UNCHANGED <<cookies, cookie_file, hash_seed, remote, invocations, env, call>>

\* ensure_authenticated, up to its login request.
EnsureAuthenticated(p) ==
    LET f == frame[p] IN
    /\ f.pc = "ensure"
    /\ client' = "open"
    /\ IF ~DictTruthy(cookies)
       THEN /\ jar' = EnsuredJar
            /\ frame' = [frame EXCEPT ![p].pc = "ensure_login"]
       ELSE /\ jar' = cookies
            /\ frame' = [frame EXCEPT ![p].pc = "attempt"]
    /\ UNCHANGED <<cookies, cookie_file, hash_seed, remote, invocations, env, call>>

AuthBodies == {[status |-> "ok"]}

\* login: the POST to AUTH_URL, raise_for_status, then the cookies are taken
\* from the client and saved.  Called by ensure_authenticated and by
\* _with_reauth.
Login(p) ==
    LET f == frame[p] IN
    /\ f.pc \in {"ensure_login", "relogin"}
    /\ \E resp \in Responses(AuthBodies) :
          LET j == JarAfter(EnsuredJar, resp)
              inWrapper == f.pc = "relogin"
              g == [Sent(f, "auth") EXCEPT
                             !.wrapper.logins = IF inWrapper THEN @ + 1 ELSE @]
          IN  /\ client' = "open"
              /\ jar' = j
              /\ IF resp.kind = "ok"
                 THEN /\ cookies' = SyncFromClient(cookies, j)
                      /\ cookie_file' = _save_cookie_file(cookie_file, cookies')
                      /\ frame' = [frame EXCEPT ![p] =
                            [g EXCEPT !.pc = IF inWrapper THEN "retry" ELSE "attempt",
                                      !.wrapper.login_ok = IF inWrapper THEN TRUE ELSE @]]
                 ELSE /\ UNCHANGED <<cookies, cookie_file>>
                      /\ frame' = [frame EXCEPT ![p] = Throw(g, ExcOf(resp))]
    /\ UNCHANGED <<hash_seed, remote, invocations, env, call>>

Malformed == [malformed |-> TRUE]

SearchBodies(container) ==
    {Malformed, [status |-> "error"]}
    \cup {[status |-> "ok", data |-> d] : d \in SearchDatas(container)}

\* _call_get_words under _with_reauth, and get_word_data's reading of the answer.
CallGetWords(p) ==
    LET f == frame[p] IN
    /\ f.op = "search"
    /\ f.pc \in {"attempt", "retry"}
    /\ \E resp \in Responses(SearchBodies(remote)) :
          LET j == JarAfter(EnsuredJar, resp)
              g == [Sent(f, "search") EXCEPT !.wrapper.attempted =
                                Append(@, <<"_call_get_words", f.word>>)]
          IN  /\ client' = "open"
              /\ jar' = j
              /\ IF resp.kind = "ok"
                 THEN /\ cookies' = SyncFromClient(cookies, j)
                      /\ frame' = [frame EXCEPT ![p] =
                            IF resp.body = Malformed
                            THEN _with_reauth([g EXCEPT !.search_status =
                                                  IF env.traced THEN Some("<undecodable>") ELSE @],
                                              Exception("JSONDecodeError"))
                            ELSE [g EXCEPT !.pc = "decide",
                                           !.search_status =
                                               IF env.traced
                                               THEN Some(GetDefault(resp.body, "status", ""))
                                               ELSE @,
                                           !.word_data = WordDataOf(resp.body, f.word)]]
                 ELSE /\ UNCHANGED cookies
                      /\ frame' = [frame EXCEPT ![p] = _with_reauth(g, ExcOf(resp))]
    /\ UNCHANGED <<cookie_file, hash_seed, remote, invocations, env, call>>

TranslateBodies == {Malformed} \cup TranslatePayloads

\* _call_get_translates under _with_reauth.
CallGetTranslates(p) ==
    LET f == frame[p] IN
    /\ f.op = "translate"
    /\ f.pc \in {"attempt", "retry"}
    /\ \E resp \in Responses(TranslateBodies) :
          LET j == JarAfter(EnsuredJar, resp)
              g == [Sent(f, "translate") EXCEPT !.wrapper.attempted =
                                Append(@, <<"_call_get_translates", f.word>>)]
          IN  /\ client' = "open"
              /\ jar' = j
              /\ IF resp.kind = "ok"
                 THEN /\ cookies' = SyncFromClient(cookies, j)
                      /\ frame' = [frame EXCEPT ![p] =
                            IF resp.body = Malformed
                            THEN _with_reauth(g, Exception("JSONDecodeError"))
                            ELSE [g EXCEPT !.pc = "resolve",
                                           !.translate_payload = Some(resp.body)]]
                 ELSE /\ UNCHANGED cookies
                      /\ frame' = [frame EXCEPT ![p] = _with_reauth(g, ExcOf(resp))]
    /\ UNCHANGED <<cookie_file, hash_seed, remote, invocations, env, call>>

WriteBodies == {Malformed, [status |-> "ok"], [status |-> "error"]}

\* _call_set_words under _with_reauth.  The translation block is built
\* before the request: a translation without "id" raises KeyError and
\* nothing is sent.  A 2xx answer with status ok has added the translation;
\* a request that got no response may or may not have been applied.
CallSetWords(p) ==
    LET f == frame[p]
        translation == f.match[1]
    IN
    /\ f.op = "write"
    /\ f.pc \in {"attempt", "retry"}
    /\ \/ /\ "id" \notin DOMAIN translation
          /\ frame' = [frame EXCEPT ![p] =
                _with_reauth([f EXCEPT !.wrapper.attempted =
                                  Append(@, <<"_call_set_words", f.word, translation>>)],
                             Exception("KeyError"))]
          /\ UNCHANGED <<cookies, jar, client, remote>>
       \/ /\ "id" \in DOMAIN translation
          /\ \E resp \in Responses(WriteBodies), applied \in BOOLEAN :
                LET j == JarAfter(EnsuredJar, resp)
                    block == TranslationBlock(translation)
                    g == [Sent(f, "write") EXCEPT !.written = Append(@, block),
                                   !.wrapper.attempted =
                                      Append(@, <<"_call_set_words", f.word, translation>>)]
                    added == RemoteAdd(remote, f.word, block.tr)
                IN  /\ client' = "open"
                    /\ jar' = j
                    /\ IF resp.kind = "ok"
                       THEN /\ cookies' = SyncFromClient(cookies, j)
                            /\ applied
                            /\ remote' = IF resp.body = [status |-> "error"]
                                         THEN remote ELSE added
                            /\ frame' = [frame EXCEPT ![p] =
                                  IF resp.body = Malformed
                                  THEN _with_reauth(g, Exception("JSONDecodeError"))
                                  ELSE [g EXCEPT !.pc = "finish",
                                                 !.response = Some(resp.body)]]
                       ELSE /\ UNCHANGED cookies
                            /\ remote' = IF resp.kind = "request_error" /\ applied
                                         THEN added ELSE remote
                            /\ frame' = [frame EXCEPT ![p] = _with_reauth(g, ExcOf(resp))]
    /\ UNCHANGED <<cookie_file, hash_seed, invocations, env, call>>

(***************************************************************************)
(* The engine: add_word_with_hint                                          *)
(***************************************************************************)

\* The caller starts add_word_with_hint(word, translation_hint); its first
\* statement is the call of get_word_data.
Invoke(p, word, translation_hint) ==
    /\ frame[p].pc \in {"idle", "done"}
    /\ invocations < MaxInvocations
    /\ invocations' = invocations + 1
    /\ frame' = [frame EXCEPT ![p] =
          Enter([IdleFrame EXCEPT !.word = word,
                                  !.translation_hint = translation_hint], "search")]
    /\ UNCHANGED <<cookies, jar, client, cookie_file, hash_seed, remote, env, call>>

\* A variant of the duplicate decision that asks for a hint before it
\* calls anything a duplicate.
DuplicateDecisionHintOnly(word_data, translation_hint) ==
    IF word_data /= Nothing /\ DictTruthy(word_data[1]) /\ Truthy(translation_hint)
    THEN IF translation_exists(extract_existing_translations(word_data[1]),
                               translation_hint)
         THEN "translation_exists"
         ELSE "new_translation"
    ELSE "new_word"

\* A variant of the duplicate decision for which a word that is found is a
\* duplicate whatever the hint.
DuplicateDecisionAnyFound(word_data, translation_hint) ==
    IF word_data /= Nothing /\ DictTruthy(word_data[1])
    THEN IF ~Truthy(translation_hint) THEN "word_exists" ELSE "translation_exists"
    ELSE "new_word"

\* After get_word_data has returned: the duplicate decision, then the call
\* of get_translates.
DuplicateDecision(word_data, translation_hint) ==
    IF word_data /= Nothing /\ DictTruthy(word_data[1])
    THEN IF ~Truthy(translation_hint)
         THEN "word_exists"
         ELSE IF translation_exists(extract_existing_translations(word_data[1]),
                                    translation_hint)
         THEN "translation_exists"
         ELSE "new_translation"
    ELSE "new_word"

\* A variant of the engine that has looked the candidates up by the time
\* it rejects a duplicate.
DecideAfterLookup(p) ==
    LET f == frame[p]
        decision == DuplicateDecision(f.word_data, f.translation_hint)
        g == Sent([f EXCEPT !.calls = Append(@, "translate")], "translate")
    IN
    /\ f.pc = "decide"
    /\ frame' = [frame EXCEPT ![p] =
          CASE decision = "word_exists" ->
                 Raise(g, LinguaLeoError("Word already exists in dictionary"))
            [] decision = "translation_exists" ->
                 Raise(g, LinguaLeoError("Word with translation already exists"))
            [] OTHER -> Enter(f, "translate")]
    /\ UNCHANGED <<cookies, jar, client, cookie_file, hash_seed, remote, invocations, env, call>>

Decide(p) ==
    LET f == frame[p]
        decision == DuplicateDecision(f.word_data, f.translation_hint)
    IN
    /\ f.pc = "decide"
    /\ frame' = [frame EXCEPT ![p] =
          CASE decision = "word_exists" ->
                 Raise(f, LinguaLeoError("Word already exists in dictionary"))
            [] decision = "translation_exists" ->
                 Raise(f, LinguaLeoError("Word with translation already exists"))
            [] OTHER -> Enter(f, "translate")]
    /\ UNCHANGED <<cookies, jar, client, cookie_file, hash_seed, remote, invocations, env, call>>

\* Variants of the choice of the translation: one takes the last candidate
\* when there is no hint, one writes a placeholder when there is neither a
\* hint nor a candidate, one never looks at the candidates when there is a
\* hint.
ChooseTranslationLast(candidates, translation_hint, seed) ==
    IF Truthy(translation_hint)
    THEN LET match == select_best_translation(candidates, translation_hint, DEFAULT_THRESHOLD)
         IN  IF match = Nothing \/ ~DictTruthy(match[1])
             THEN <<Some(CustomTranslation(seed, translation_hint)), FALSE>>
             ELSE <<match, FALSE>>
    ELSE IF candidates /= <<>>
         THEN <<Some(candidates[Len(candidates)]), TRUE>>
         ELSE <<Nothing, FALSE>>

ChooseTranslationPlaceholder(candidates, translation_hint, seed) ==
    IF Truthy(translation_hint)
    THEN LET match == select_best_translation(candidates, translation_hint, DEFAULT_THRESHOLD)
         IN  IF match = Nothing \/ ~DictTruthy(match[1])
             THEN <<Some(CustomTranslation(seed, translation_hint)), FALSE>>
             ELSE <<match, FALSE>>
    ELSE IF candidates /= <<>>
         THEN <<Some(candidates[1]), TRUE>>
         ELSE <<Some(CustomTranslation(seed, <<"d">>)), TRUE>>

ChooseTranslationCustomOnly(candidates, translation_hint, seed) ==
    IF Truthy(translation_hint)
    THEN <<Some(CustomTranslation(seed, translation_hint)), FALSE>>
    ELSE IF candidates /= <<>>
         THEN <<Some(candidates[1]), TRUE>>
         ELSE <<Nothing, FALSE>>

\* A variant of the choice that calls the match of a hint automatic too.
ChooseTranslationAutoOnMatch(candidates, translation_hint, seed) ==
    IF Truthy(translation_hint)
    THEN LET match == select_best_translation(candidates, translation_hint, DEFAULT_THRESHOLD)
         IN  IF match = Nothing \/ ~DictTruthy(match[1])
             THEN <<Some(CustomTranslation(seed, translation_hint)), FALSE>>
             ELSE <<match, TRUE>>
    ELSE IF candidates /= <<>>
         THEN <<Some(candidates[1]), TRUE>>
         ELSE <<Nothing, FALSE>>

\* The translation chosen from the candidates: <<match, auto_selected>>,
\* match = Nothing when there is none.
ChooseTranslation(candidates, translation_hint, seed) ==
    IF Truthy(translation_hint)
    THEN LET match == select_best_translation(candidates, translation_hint, DEFAULT_THRESHOLD)
         IN  IF match = Nothing \/ ~DictTruthy(match[1])
             THEN <<Some(CustomTranslation(seed, translation_hint)), FALSE>>
             ELSE <<match, FALSE>>
    ELSE IF candidates /= <<>>
         THEN <<Some(candidates[1]), TRUE>>
         ELSE <<Nothing, FALSE>>

\* After get_translates has returned: the candidates are read from the
\* payload, the translation is chosen, then add_word is called.
Resolve(p) ==
    LET f == frame[p]
        candidates == CandidatesOf(f.translate_payload[1])
        chosen == ChooseTranslation(candidates, f.translation_hint, hash_seed)
    IN
    /\ f.pc = "resolve"
    /\ frame' = [frame EXCEPT ![p] =
          IF chosen[1] = Nothing
          THEN Raise(f, LinguaLeoError("No translation candidates returned and no hint provided"))
          ELSE IF ~DictTruthy(chosen[1][1])
          THEN Raise(f, LinguaLeoError("Could not determine translation to add"))
          ELSE Enter([f EXCEPT !.match = chosen[1], !.auto_selected = chosen[2]], "write")]
    /\ UNCHANGED <<cookies, jar, client, cookie_file, hash_seed, remote, invocations, env, call>>

\* A variant of the last step that returns without saving the cookies.
FinishWithoutSave(p) ==
    LET f == frame[p] IN
    /\ f.pc = "finish"
    /\ cookies' = IF client = "open" THEN SyncFromClient(cookies, jar) ELSE cookies
    /\ frame' = [frame EXCEPT ![p].pc = "done",
                              ![p].result = [kind |-> "returned",
                                             response |-> f.response[1],
                                             translation_used |-> f.match[1],
                                             auto_selected |-> f.auto_selected]]
    /\ UNCHANGED <<cookie_file, jar, client, hash_seed, remote, invocations, env, call>>

\* After add_word has returned: cookies are taken from the client and
\* saved, and the result is returned.
Finish(p) ==
    LET f == frame[p] IN
    /\ f.pc = "finish"
    /\ cookies' = IF client = "open" THEN SyncFromClient(cookies, jar) ELSE cookies
    /\ cookie_file' = _save_cookie_file(cookie_file, cookies')
    /\ frame' = [frame EXCEPT ![p].pc = "done",
                              ![p].result = [kind |-> "returned",
                                             response |-> f.response[1],
                                             translation_used |-> f.match[1],
                                             auto_selected |-> f.auto_selected]]
    /\ UNCHANGED <<jar, client, hash_seed, remote, invocations, env, call>>

\* A variant of close() that closes the HTTP client and keeps the handle.
close_keeping_handle ==
    /\ \A p \in Procs : frame[p].pc \in {"idle", "done"}
    /\ client = "open"
    /\ client' = "open"
    /\ jar' = NoCookies
    /\ UNCHANGED <<cookies, cookie_file, hash_seed, remote, invocations, frame, env, call>>

\* close(): the HTTP client is closed and dropped.
Close ==
    /\ \A p \in Procs : frame[p].pc \in {"idle", "done"}
    /\ client = "open"
    /\ client' = "None"
    /\ jar' = NoCookies
    /\ UNCHANGED <<cookies, cookie_file, hash_seed, remote, invocations, frame, env, call>>

Step(p) ==
    \/ \E w \in Words, h \in Hints : Invoke(p, w, h)
    \/ EnsureAuthenticated(p)
    \/ Login(p)
    \/ CallGetWords(p)
    \/ CallGetTranslates(p)
    \/ CallSetWords(p)
    \/ Decide(p)
    \/ Resolve(p)
    \/ Finish(p)

\* One caller: the invocations follow one another.
Next == Step(1)

Spec == Init /\ [][Next]_vars

\* The same client, constructed with a cookie_string, against a server that
\* leaves the cookies alone, with the constructor's cookie_string and the
\* requests of each invocation kept.
TracedRemotes == {<<>>, <<RecW>>}

InitTraced ==
    /\ \E cs \in CookieStrings, cf \in CookieFiles :
          /\ DictTruthy(cs)
          /\ cookies = InitCookies(cs, cf)
          /\ cookie_file = cf
          /\ env = Env(FALSE, TRUE, cs)
    /\ jar = NoCookies
    /\ client = "None"
    /\ hash_seed \in HashSeeds
    /\ remote \in TracedRemotes
    /\ invocations = 0
    /\ frame = [p \in Procs |-> IdleFrame]
    /\ call = NoCall

SpecTraced == InitTraced /\ [][Next]_vars

(***************************************************************************)
(* One client, invoked again after an invocation has ended                 *)
(***************************************************************************)

\* A variant of the further invocation that decides on the word data the
\* invocation before it had, without a search.
InvokeAgainFromCache(p, word, translation_hint) ==
    /\ frame[p].pc = "done"
    /\ invocations <= MaxInvocations
    /\ invocations' = invocations + 1
    /\ frame' = [frame EXCEPT ![p] =
          [IdleFrame EXCEPT !.word = word,
                            !.translation_hint = translation_hint,
                            !.pc = "decide", !.op = "search",
                            !.calls = <<"search">>,
                            !.word_data = frame[p].word_data]]
    /\ UNCHANGED <<cookies, jar, client, cookie_file, hash_seed, remote, env, call>>

\* add_word_with_hint called again on the same client, after an invocation
\* has ended: it starts like the first, with the call of get_word_data.
InvokeAgain(p, word, translation_hint) ==
    /\ frame[p].pc = "done"
    /\ invocations <= MaxInvocations
    /\ invocations' = invocations + 1
    /\ frame' = [frame EXCEPT ![p] =
          Enter([IdleFrame EXCEPT !.word = word,
                                  !.translation_hint = translation_hint], "search")]
    /\ UNCHANGED <<cookies, jar, client, cookie_file, hash_seed, remote, env, call>>

\* The record of a word that was added to the container by other means
\* (the web site, another client).
AddedElsewhereRecord(word) ==
    [id |-> 99, wordValue |-> word, wordLemmaValue |-> word,
     combinedTranslation |-> <<"c", "d">>]

\* Between two invocations the word is added to the container by other means.
AddedElsewhere(word) ==
    /\ \A p \in Procs : frame[p].pc \in {"idle", "done"}
    /\ invocations >= 1
    /\ \A i \in 1..Len(remote) : ~RemoteWordIs(remote[i], word)
    /\ remote' = Append(remote, AddedElsewhereRecord(word))
    /\ UNCHANGED <<cookies, jar, client, cookie_file, hash_seed, invocations, frame, env, call>>

TwiceHints == {None, <<"a", "b">>}

\* A client with a session cookie against an empty container and a server
\* that leaves the cookies alone; the requests of each invocation are kept.
InitTwice ==
    /\ cookies = [sid |-> "v1"]
    /\ cookie_file = NoCookies
    /\ jar = NoCookies
    /\ client = "None"
    /\ hash_seed \in HashSeeds
    /\ remote = <<>>
    /\ invocations = 0
    /\ frame = [p \in Procs |-> IdleFrame]
    /\ env = Env(FALSE, TRUE, None)
    /\ call = NoCall

NextTwice ==
    \/ \E w \in Words, h \in TwiceHints : Invoke(1, w, h)
    \/ \E w \in Words, h \in TwiceHints : InvokeAgain(1, w, h)
    \/ \E w \in Words : AddedElsewhere(w)
    \/ EnsureAuthenticated(1)
    \/ Login(1)
    \/ CallGetWords(1)
    \/ CallGetTranslates(1)
    \/ CallSetWords(1)
    \/ Decide(1)
    \/ Resolve(1)
    \/ Finish(1)

SpecTwice == InitTwice /\ [][NextTwice]_vars

(***************************************************************************)
(* An invocation run to its end by the event loop                          *)
(***************************************************************************)

\* A step of the coroutine of invocation p that ends at an await: the event
\* loop resumes the coroutine when the request it awaits has been answered
\* or has failed (every request has a timeout of 15 seconds).
Await(p) ==
    \/ EnsureAuthenticated(p)
    \/ Login(p)
    \/ CallGetWords(p)
    \/ CallGetTranslates(p)
    \/ CallSetWords(p)
    \/ Finish(p)

\* Any step of the coroutine of invocation p.
Advance(p) ==
    \/ Await(p)
    \/ Decide(p)
    \/ Resolve(p)

\* A client that starts with or without a session cookie, against a server
\* that sets no cookies (a client that starts without one stays without);
\* the requests of each invocation are kept.
InitLive ==
    /\ cookies \in CookieStrings
    /\ cookie_file = NoCookies
    /\ jar = NoCookies
    /\ client = "None"
    /\ hash_seed \in HashSeeds
    /\ remote \in TracedRemotes
    /\ invocations = 0
    /\ frame = [p \in Procs |-> IdleFrame]
    /\ env = Env(FALSE, TRUE, None)
    /\ call = NoCall

NextLive ==
    \/ \E w \in Words, h \in TwiceHints : Invoke(1, w, h)
    \/ Advance(1)

\* The event loop does not leave a coroutine that can go on suspended for
\* ever, and the code between two awaits (the duplicate decision, the
\* choice of the translation) runs on without suspension: the coroutine is
\* not at either for ever.
SpecLive ==
    /\ InitLive
    /\ [][NextLive]_vars
    /\ WF_vars(Await(1))
    /\ []<>(frame[1].pc \notin {"decide", "resolve"})

(***************************************************************************)
(* Two invocations interleaved on one client                               *)
(***************************************************************************)

\* add_word_with_hint called while another invocation may be in flight on
\* the same client: nothing in the client makes it wait.
InvokeBeside(p, word, translation_hint) ==
    /\ frame[p].pc = "idle"
    /\ invocations <= MaxInvocations
    /\ invocations' = invocations + 1
    /\ frame' = [frame EXCEPT ![p] =
          Enter([IdleFrame EXCEPT !.word = word,
                                  !.translation_hint = translation_hint], "search")]
    /\ UNCHANGED <<cookies, jar, client, cookie_file, hash_seed, remote, env, call>>

\* A client with a session cookie against an empty container and a server
\* that leaves the cookies alone.
InitConcurrent ==
    /\ cookies = [sid |-> "v1"]
    /\ cookie_file = NoCookies
    /\ jar = NoCookies
    /\ client = "None"
    /\ hash_seed \in HashSeeds
    /\ remote = <<>>
    /\ invocations = 0
    /\ frame = [p \in Procs |-> IdleFrame]
    /\ env = Env(FALSE, FALSE, None)
    /\ call = NoCall

\* The event loop runs the two coroutines in any order, switching at awaits.
NextConcurrent ==
    \E p \in Procs :
        \/ \E w \in Words : InvokeBeside(p, w, None)
        \/ Advance(p)

SpecConcurrent == InitConcurrent /\ [][NextConcurrent]_vars

(***************************************************************************)
(* The module's functions, called on their own                             *)
(***************************************************************************)

\* The client's state, which a call observed on its own leaves alone.
engine == <<cookies, jar, client, cookie_file, hash_seed, remote, invocations, frame, env>>

\* The longest list a call is given (candidates, existing translations,
\* the groups of a search answer and the words of a group).
MaxListLen == 2

\* The lists of at most n elements of S.
ListsOf(S, n) == UNION {[1..k -> S] : k \in 0..n}

\* Candidates given to select_best_translation: two that differ in case
\* only, one with tr only, one whose value is empty and whose tr is not,
\* two without display text, one that shares nothing with the others.
SelectCandidates ==
    {[id |-> 1, value |-> <<"a", "b">>],
     [id |-> 2, value |-> <<"A", "B">>],
     [id |-> 3, tr |-> <<"a", "b", "c">>],
     [id |-> 4, value |-> <<>>, tr |-> <<"a">>],
     [id |-> 5, value |-> <<>>],
     [id |-> 6],
     [id |-> 7, value |-> <<"d">>]}

SelectDesired == {None, <<>>, <<" ">>, <<"a", "b">>, <<"a", "B">>, <<"c", "d">>}

\* Thresholds: 0.0, the default 0.8 and 1.0.
Thresholds == {<<0, 1>>, DEFAULT_THRESHOLD, <<1, 1>>}

CallSelectBest ==
    /\ call.fn = "none"
    /\ \E candidates \in ListsOf(SelectCandidates, MaxListLen),
          desired \in SelectDesired, threshold \in Thresholds :
          call' = [fn |-> "select_best_translation",
                   candidates |-> candidates, desired |-> desired,
                   threshold |-> threshold,
                   result |-> select_best_translation(candidates, desired, threshold)]
    /\ UNCHANGED engine

\* The longest combinedTranslation field tried character by character.
MaxCombinedLen == 3

CombinedChars == {"a", "A", ";", " "}

\* The word records given to extract_existing_translations: every
\* combinedTranslation of at most MaxCombinedLen characters, "a; b; A", or
\* none, with a structured translations list or none.
CombinedFields ==
    ListsOf(CombinedChars, MaxCombinedLen) \cup {<<"a", ";", " ", "b", ";", " ", "A">>}

TranslationLists ==
    {<<>>,
     <<[value |-> <<"a">>]>>,
     <<[value |-> <<" ", "A", " ">>], [tr |-> <<"b">>]>>,
     <<[value |-> <<" ">>, tr |-> <<"b">>], [value |-> <<>>, tr |-> <<"B">>], [id |-> 6]>>}

ExtractInputs ==
    LET fields == {[combinedTranslation |-> cf] : cf \in CombinedFields \cup {None}}
                      \cup {[wordValue |-> <<"w">>]}
    IN  fields \cup {x @@ [translations |-> tl] : x \in fields, tl \in TranslationLists}

CallExtractExisting ==
    /\ call.fn = "none"
    /\ \E word_data \in ExtractInputs :
          call' = [fn |-> "extract_existing_translations",
                   word_data |-> word_data,
                   result |-> extract_existing_translations(word_data)]
    /\ UNCHANGED engine

\* Existing translations and hints given to translation_exists.
ExistsTexts ==
    {<<>>, <<" ">>, <<"a">>, <<" ", "A", " ">>, <<"a", "b">>, <<"a", "B">>, <<"b">>}

CallTranslationExists ==
    /\ call.fn = "none"
    /\ \E existing_translations \in ListsOf(ExistsTexts, MaxListLen), hint \in ExistsTexts :
          call' = [fn |-> "translation_exists",
                   existing_translations |-> existing_translations,
                   hint |-> hint,
                   result |-> translation_exists(existing_translations, hint)]
    /\ UNCHANGED engine

\* Word records of a search answer: one matches "w" by its wordValue and
\* has a blank lemma, one matches "w" by its lemma and "x" by its wordValue.
SearchRecords ==
    {[id |-> 1, wordValue |-> <<"W", " ">>, wordLemmaValue |-> <<" ">>],
     [id |-> 2, wordValue |-> <<"x">>, wordLemmaValue |-> <<" ", "w">>]}

SearchGroups ==
    {[groupName |-> "g"]}
    \cup {[groupName |-> "g", words |-> ws] : ws \in ListsOf(SearchRecords, MaxListLen)}

\* Decoded GetWords answers: status ok with at most MaxListLen groups,
\* status ok without data, and answers whose status is not ok.
SearchResponses ==
    {[status |-> "ok", data |-> d] : d \in ListsOf(SearchGroups, MaxListLen)}
    \cup {[status |-> "ok"]}
    \cup {[status |-> "error", data |-> d] : d \in ListsOf(SearchGroups, 1)}
    \cup {[data |-> d] : d \in ListsOf(SearchGroups, 1)}

SearchQueries == {<<"w">>, <<" ", "W">>, <<" ">>, <<"x">>, <<"y">>}

\* get_word_data's reading of a decoded answer.
CallWordSearch ==
    /\ call.fn = "none"
    /\ \E response \in SearchResponses, word \in SearchQueries :
          call' = [fn |-> "get_word_data",
                   response |-> response, word |-> word,
                   result |-> WordDataOf(response, word)]
    /\ UNCHANGED engine

\* Cookie dicts given to the save: every dict over two names and four
\* values, two of which need escaping in JSON.
StoreNames == {<<"s">>, <<"u">>}

StoreValues == {<<>>, <<"v">>, <<"\"">>, <<"v", "\\">>}

CookieDicts == UNION {[K -> StoreValues] : K \in SUBSET StoreNames}

\* Texts a cookie file may hold besides a saved dict: an empty file,
\* "n{" (no JSON), a truncated save, an empty array, a string, and objects
\* written by other hands (compact; a name twice).
OtherTexts ==
    {<<>>,
     <<"n", "{">>,
     <<"{", "\n", " ", " ", "\"", "s", "\"", ":", " ", "\"", "v">>,
     <<"[", "]">>,
     <<"\"", "s", "\"">>,
     <<"{", "\"", "s", "\"", ":", "\"", "v", "\"", "}">>,
     <<" ", "{", "\"", "s", "\"", ":", "\"", "v", "\"", ",",
       "\"", "s", "\"", ":", "\"", "\"", "}", "\n">>}

FileStates ==
    {AbsentFile, UndecodableFile}
    \cup {TextFile(t) : t \in OtherTexts \cup {json_dumps(d) : d \in CookieDicts}}

CallLoadCookieFile ==
    /\ call.fn = "none"
    /\ \E file \in FileStates :
          call' = [fn |-> "_load_cookie_file", file |-> file,
                   result |-> _load_cookie_file(file)]
    /\ UNCHANGED engine

\* _save_cookie_file(path, cookies) on a file in any state: the file afterwards.
CallSaveCookieFile ==
    /\ call.fn = "none"
    /\ \E file \in FileStates, cs \in CookieDicts :
          call' = [fn |-> "_save_cookie_file", file |-> file, cookies |-> cs,
                   result |-> write_text(file, cs)]
    /\ UNCHANGED engine

\* The email and the password a client is given, or has when login is called.
Credentials == {None, <<>>, <<"e">>}

\* cookie_string arguments: none, empty, "s=v1", and one with padding, a
\* part without "=" and a value with "=".
CookieStringTexts ==
    {None, <<>>, <<"s", "=", "v", "1">>,
     <<" ", "s", " ", "=", " ", "w", ";", "u", ";", "u", "=", "a", "=", "b">>}

\* A variant of the constructor that takes whatever credentials it is given.
init_unchecked(email, password, cookie_string, file) ==
    LET loaded == _load_cookie_file(file)
    IN  IF loaded.kind = "raised" THEN loaded
        ELSE [kind |-> "constructed",
              cookies |-> InitCookies(IF Truthy(cookie_string)
                                      THEN parse_cookie_string(cookie_string)
                                      ELSE <<>>,
                                      loaded.value)]

\* LinguaLeoClient(email=, password=, cookie_string=, cookie_file=): the
\* exception it raises, or the cookies the new client has.
__init__(email, password, cookie_string, file) ==
    IF ~Truthy(email) \/ ~Truthy(password)
    THEN Raised(LinguaLeoError("LinguaLeo email and password are required."))
    ELSE LET loaded == _load_cookie_file(file)
         IN  IF loaded.kind = "raised" THEN loaded
             ELSE [kind |-> "constructed",
                   cookies |-> InitCookies(IF Truthy(cookie_string)
                                           THEN parse_cookie_string(cookie_string)
                                           ELSE <<>>,
                                           loaded.value)]

CallInit ==
    /\ call.fn = "none"
    /\ \E email \in Credentials, password \in Credentials,
          cookie_string \in CookieStringTexts, file \in FileStates :
          call' = [fn |-> "__init__", email |-> email, password |-> password,
                   cookie_string |-> cookie_string, file |-> file,
                   result |-> __init__(email, password, cookie_string, file)]
    /\ UNCHANGED engine

\* A variant of login that posts whatever credentials the client has.
login_unchecked(email, password, cs, j, resp) ==
    IF resp.kind = "ok"
    THEN [outcome |-> Returned(None), sent |-> <<"auth">>,
          cookies |-> SyncFromClient(cs, JarAfter(j, resp)),
          saved |-> Some(SyncFromClient(cs, JarAfter(j, resp)))]
    ELSE [outcome |-> Raised(ExcOf(resp)), sent |-> <<"auth">>,
          cookies |-> cs, saved |-> Nothing]

\* A variant of login that drops the session when it fails.
login_clearing(email, password, cs, j, resp) ==
    IF ~Truthy(email) \/ ~Truthy(password)
    THEN [outcome |-> Raised(LinguaLeoError("Missing LinguaLeo credentials for login.")),
          sent |-> <<>>, cookies |-> NoCookies, saved |-> Some(NoCookies)]
    ELSE IF resp.kind = "ok"
    THEN [outcome |-> Returned(None), sent |-> <<"auth">>,
          cookies |-> SyncFromClient(cs, JarAfter(j, resp)),
          saved |-> Some(SyncFromClient(cs, JarAfter(j, resp)))]
    ELSE [outcome |-> Raised(ExcOf(resp)), sent |-> <<"auth">>,
          cookies |-> NoCookies, saved |-> Some(NoCookies)]

\* login() of a client whose attributes are email and password (the
\* constructor's, unless the caller has assigned them since), whose cookies
\* are cs and whose HTTP client has the jar j, when the server answers
\* resp: what login gives its caller, the requests it sent, the client's
\* cookies afterwards and what it saved to the cookie file.
login(email, password, cs, j, resp) ==
    IF ~Truthy(email) \/ ~Truthy(password)
    THEN [outcome |-> Raised(LinguaLeoError("Missing LinguaLeo credentials for login.")),
          sent |-> <<>>, cookies |-> cs, saved |-> Nothing]
    ELSE IF resp.kind = "ok"
    THEN [outcome |-> Returned(None), sent |-> <<"auth">>,
          cookies |-> SyncFromClient(cs, JarAfter(j, resp)),
          saved |-> Some(SyncFromClient(cs, JarAfter(j, resp)))]
    ELSE [outcome |-> Raised(ExcOf(resp)), sent |-> <<"auth">>,
          cookies |-> cs, saved |-> Nothing]

CallLogin ==
    /\ call.fn = "none"
    /\ \E email \in Credentials, password \in Credentials, cs \in CookieStrings,
          resp \in Responses(AuthBodies) :
          call' = [fn |-> "login", email |-> email, password |-> password,
                   cookies |-> cs, response |-> resp,
                   result |-> login(email, password, cs, cs, resp)]
    /\ UNCHANGED engine

\* The observed call is done with.
Return ==
    /\ call.fn /= "none"
    /\ call' = NoCall
    /\ UNCHANGED engine

InitHelpers ==
    /\ cookies = NoCookies
    /\ cookie_file = NoCookies
    /\ jar = NoCookies
    /\ client = "None"
    /\ hash_seed \in HashSeeds
    /\ remote = <<>>
    /\ invocations = 0
    /\ frame = [p \in Procs |-> IdleFrame]
    /\ env = Env(TRUE, FALSE, None)
    /\ call = NoCall

NextHelpers ==
    \/ CallSelectBest
    \/ CallExtractExisting
    \/ CallTranslationExists
    \/ CallWordSearch
    \/ CallLoadCookieFile
    \/ CallSaveCookieFile
    \/ CallInit
    \/ CallLogin
    \/ Return

SpecHelpers == InitHelpers /\ [][NextHelpers]_vars

(***************************************************************************)
(* The ids minted for custom translations in one process                   *)
(***************************************************************************)

\* The str hash seeds of the processes considered here.
ProcessSeeds == {5, 6, 1000}

\* Hints no candidate matches: "a", "ab", "cd", " AB ", "abcda", "ddddd".
IdHints ==
    {<<"a">>, <<"a", "b">>, <<"c", "d">>, <<" ", "A", "B", " ">>,
     <<"a", "b", "c", "d", "a">>, <<"d", "d", "d", "d", "d">>}

\* The ids the process has minted so far, as <<hint, id>> pairs.
Minted == IF call.fn = "custom_translation" THEN call.minted ELSE {}

\* The choice of add_word_with_hint for a hint when get_translates has
\* returned no candidates: the custom translation, with its id.
CallCustomTranslation ==
    \E translation_hint \in IdHints :
        LET match == ChooseTranslation(<<>>, translation_hint, hash_seed)[1][1]
        IN  /\ call' = [fn |-> "custom_translation",
                        translation_hint |-> translation_hint,
                        result |-> match,
                        minted |-> Minted \cup {<<translation_hint, match.id>>}]
            /\ UNCHANGED engine

InitIds ==
    /\ cookies = NoCookies
    /\ cookie_file = NoCookies
    /\ jar = NoCookies
    /\ client = "None"
    /\ hash_seed \in ProcessSeeds
    /\ remote = <<>>
    /\ invocations = 0
    /\ frame = [p \in Procs |-> IdleFrame]
    /\ env = Env(TRUE, FALSE, None)
    /\ call = NoCall

NextIds == CallCustomTranslation

SpecIds == InitIds /\ [][NextIds]_vars

(***************************************************************************)
(* The chat layer: process_single_word of bot.py                           *)
(***************************************************************************)

\* What add_word_with_hint gives the caller that awaits it: an outcome, one
\* of the engine's errors, or what a gateway call raised.
EngineOutcomes ==
    {[kind |-> "returned", response |-> [status |-> "ok"],
      translation_used |-> t, auto_selected |-> a] :
        t \in {CandAbc, CandD, CandTrOnly, CandNoText,
               CustomTranslation(5, <<"c", "d">>)},
        a \in BOOLEAN}
    \cup {Raised(LinguaLeoError(m)) :
            m \in {"Word already exists in dictionary",
                   "Word with translation already exists",
                   "No translation candidates returned and no hint provided",
                   "Could not determine translation to add"}}
    \cup {Raised(ExcOf(r)) : r \in {[kind |-> "request_error"]}
            \cup {[kind |-> "status_error", status |-> st] : st \in HttpErrorStatuses}}
    \cup {Raised(Exception("KeyError")), Raised(Exception("JSONDecodeError"))}

\* Words the chat layer is given.
ChatWords == {<<"W">>, <<"w">>, <<"a">>, <<"a", "b">>, <<"c", "d">>}

\* "already exists" in error_msg.lower(), for the messages of the engine.
MentionsAlreadyExists(message) ==
    message \in {"Word already exists in dictionary", "Word with translation already exists"}

\* A variant of the call that awaits the coroutine.
AwaitedCall(outcome) == outcome

\* client.add_word_with_hint(word, hint), as bot.py writes it: the call of
\* an `async def` without await gives the coroutine object; the body of
\* add_word_with_hint does not run, and nothing is raised by the call.
UnawaitedCall(outcome) == [kind |-> "coroutine"]

\* process_single_word(client, word, hint) when the invocation of
\* add_word_with_hint, were it run, would end with this outcome: the tuple
\* (success, word, translation_text, auto_selected, status_message).
\* result.translation_used on something that is no AddWordResult raises
\* AttributeError, which `except Exception` turns into status "error".
process_single_word(outcome, word) ==
    LET result == UnawaitedCall(outcome)
        failure(exc) ==
            IF exc.error = "LinguaLeoError" /\ MentionsAlreadyExists(exc.message)
            THEN <<FALSE, word, None, FALSE, "exists">>
            ELSE <<FALSE, word, None, FALSE, "error">>
    IN  IF result.kind = "raised" THEN failure(result)
        ELSE IF result.kind = "returned"
        THEN <<TRUE, word,
               Or(Get(result.translation_used, "value"), Get(result.translation_used, "tr")),
               result.auto_selected, None>>
        ELSE failure(Exception("AttributeError"))

CallProcessSingleWord ==
    /\ call.fn = "none"
    /\ \E outcome \in EngineOutcomes, word \in ChatWords :
          call' = [fn |-> "process_single_word", outcome |-> outcome, word |-> word,
                   result |-> process_single_word(outcome, word)]
    /\ UNCHANGED engine

NextChat ==
    \/ CallProcessSingleWord
    \/ Return

SpecChat == InitHelpers /\ [][NextChat]_vars

(***************************************************************************)
(* The HTTP client handle: context manager and close                       *)
(***************************************************************************)

\* __aenter__: _ensure_client, between invocations.  A client that has a
\* handle already keeps it as it is.
AEnter ==
    /\ \A p \in Procs : frame[p].pc \in {"idle", "done"}
    /\ client' = "open"
    /\ jar' = EnsuredJar
    /\ UNCHANGED <<cookies, cookie_file, hash_seed, remote, invocations, frame, env, call>>

\* close() (or __aexit__) of a client that has no handle: `if self.client`
\* is false and nothing is done.  The call is noted, the client untouched.
CloseOnClosed ==
    /\ \A p \in Procs : frame[p].pc \in {"idle", "done"}
    /\ client = "None"
    /\ call.fn = "none"
    /\ call' = [fn |-> "close"]
    /\ UNCHANGED <<cookies, jar, client, cookie_file, hash_seed, remote, invocations, frame, env>>

\* A client with or without a session cookie, no handle yet, against an
\* empty container.  Either the server may set cookies, or it leaves them
\* alone and the requests of each invocation are kept.
InitLifecycle ==
    /\ cookies \in CookieStrings
    /\ cookie_file = NoCookies
    /\ jar = NoCookies
    /\ client = "None"
    /\ hash_seed \in HashSeeds
    /\ remote = <<>>
    /\ invocations = 0
    /\ frame = [p \in Procs |-> IdleFrame]
    /\ env \in {Env(TRUE, FALSE, None), Env(FALSE, TRUE, None)}
    /\ call = NoCall

\* One caller: invocations one after another, the context manager entered
\* and the client closed in between.
NextLifecycle ==
    \/ \E w \in Words : Invoke(1, w, None)
    \/ \E w \in Words : InvokeAgain(1, w, None)
    \/ Advance(1)
    \/ AEnter
    \/ Close
    \/ CloseOnClosed
    \/ Return

SpecLifecycle == InitLifecycle /\ [][NextLifecycle]_vars

(***************************************************************************)
(* Properties: the re-authentication wrapper                               *)
(***************************************************************************)

\* The first attempt of the wrapper that invocation p is in, or has left
\* last, raised an HTTPStatusError with one of the statuses.
FirstFailedWith(p, statuses) ==
    LET w == frame[p].wrapper IN
    /\ w.first_exc /= Nothing
    /\ w.first_exc[1].error = "HTTPStatusError"
    /\ w.first_exc[1].status \in statuses

\* C1: in every wrapped gateway operation (get_word_data, get_translates,
\* add_word) whose first attempt failed with status 400, 401 or 403, the
\* wrapper logs in exactly once and, once that login has returned, calls
\* the same function with the same arguments exactly once more; it never
\* makes a third attempt and never logs in a second time.  (A login that
\* raises ends the wrapper: there is no second attempt then.)
ReauthLogsInOnceRetriesOnce ==
    \A p \in Procs :
        LET f == frame[p]
            w == f.wrapper
        IN  FirstFailedWith(p, {400, 401, 403}) =>
              /\ w.logins <= 1
              /\ Len(w.attempted) <= 2
              /\ (f.pc = "relogin") => (w.logins = 0 /\ Len(w.attempted) = 1)
              /\ (f.pc /= "relogin") => (w.logins = 1)
              /\ (f.pc = "retry") => (w.login_ok /\ Len(w.attempted) = 1)
              /\ (f.pc \notin {"relogin", "retry"}) =>
                    IF w.login_ok
                    THEN Len(w.attempted) = 2 /\ w.attempted[2] = w.attempted[1]
                    ELSE Len(w.attempted) = 1

\* A write whose first attempt got 401, whose login returned and whose
\* second attempt, with the same arguments, succeeded.
ReauthRetrySucceeded ==
    \E p \in Procs :
        /\ FirstFailedWith(p, {401})
        /\ frame[p].op = "write"
        /\ frame[p].pc = "finish"
        /\ frame[p].wrapper.logins = 1
        /\ Len(frame[p].wrapper.attempted) = 2

OtherFailuresAreNotRetried ==
    /\ \A status_code \in HttpErrorStatuses \cup {0, 200, 402} :
          _should_reauth(status_code) <=> status_code \in {400, 401, 403}
    /\ \A p \in Procs :
          LET f == frame[p]
              w == f.wrapper
          IN  (w.first_exc /= Nothing /\ ~FirstFailedWith(p, {400, 401, 403})) =>
                /\ w.logins = 0
                /\ Len(w.attempted) = 1
                /\ w.retry_exc = Nothing
                /\ f.pc \notin {"relogin", "retry"}

\* add_word got 500 on its only attempt and the caller got that error.
ServerErrorNotRetried ==
    \E p \in Procs :
        /\ FirstFailedWith(p, {500})
        /\ frame[p].op = "write"
        /\ frame[p].pc = "done"
        /\ frame[p].result = [kind |-> "raised", error |-> "HTTPStatusError",
                              status |-> 500, message |-> ""]
        /\ Len(frame[p].wrapper.attempted) = 1

(***************************************************************************)
(* Properties: the duplicate decision of add_word_with_hint                *)
(***************************************************************************)

\* The caller of invocation p got this LinguaLeoError.
FailedWith(p, message) ==
    /\ frame[p].pc = "done"
    /\ frame[p].result = Raised(LinguaLeoError(message))

\* The caller of invocation p got some LinguaLeoError.
FailedInEngine(p) ==
    /\ frame[p].result.kind = "raised"
    /\ frame[p].result.error = "LinguaLeoError"

\* The lookup of invocation p found the word.
Found(p) == frame[p].word_data /= Nothing

\* The hint of invocation p is, lowercased and stripped, one of the
\* translations the found record has, lowercased and stripped.
HintAmongExisting(p) ==
    LET existing == extract_existing_translations(frame[p].word_data[1])
    IN  Strip(Lower(frame[p].translation_hint))
            \in {Strip(Lower(existing[i])) : i \in 1..Len(existing)}

\* C4: whenever the lookup has found the word and there is no hint (None
\* or ""), add_word_with_hint raises the "already exists" error, before any
\* candidate lookup or write.
FoundWithoutHintIsDuplicate ==
    \A p \in Procs :
        (Found(p) /\ ~Truthy(frame[p].translation_hint)) =>
            /\ frame[p].calls = <<"search">>
            /\ frame[p].written = <<>>
            /\ \/ frame[p].pc = "decide"
               \/ FailedWith(p, "Word already exists in dictionary")

\* The word was found through its lemma, no hint was given, and the caller
\* got the "already exists" error.
DuplicateWordRejected ==
    \E p \in Procs :
        /\ Found(p)
        /\ frame[p].word_data[1] = RecLemma
        /\ frame[p].translation_hint = None
        /\ FailedWith(p, "Word already exists in dictionary")

\* C5: whenever the lookup has found the word and the hint equals, after
\* lower() and strip() on both sides, one of the word's existing
\* translations, add_word_with_hint raises the duplicate error, whatever
\* the casing and the surrounding whitespace of the hint.
FoundWithSameTranslationIsDuplicate ==
    \A p \in Procs :
        (Found(p) /\ Truthy(frame[p].translation_hint) /\ HintAmongExisting(p)) =>
            /\ frame[p].calls = <<"search">>
            /\ frame[p].written = <<>>
            /\ \/ frame[p].pc = "decide"
               \/ FailedWith(p, "Word with translation already exists")

\* The record has the translation "ab", the hint was " AB ", and the caller
\* got the duplicate error.
DuplicateTranslationRejected ==
    \E p \in Procs :
        /\ Found(p)
        /\ frame[p].word_data[1] = RecW
        /\ frame[p].translation_hint = <<" ", "A", "B", " ">>
        /\ FailedWith(p, "Word with translation already exists")

\* C6: whenever the lookup has found the word and a hint is given that is
\* not, lowercased and stripped, among the existing translations,
\* add_word_with_hint raises no duplicate (nor any other LinguaLeoError): it
\* goes on to get_translates and, once that has returned, calls add_word for
\* the word with auto_selected = False; the outcome it returns has
\* auto_selected = False.
FoundWithNewTranslationProceeds ==
    \A p \in Procs :
        LET f == frame[p] IN
        (Found(p) /\ Truthy(f.translation_hint) /\ ~HintAmongExisting(p)) =>
            /\ ~FailedInEngine(p)
            /\ (f.pc /= "decide") =>
                  (Len(f.calls) >= 2 /\ f.calls[2] = "translate")
            /\ (f.translate_payload /= Nothing /\ f.pc /= "resolve") =>
                  /\ f.calls = <<"search", "translate", "write">>
                  /\ f.match /= Nothing
                  /\ ~f.auto_selected
                  /\ \A i \in 1..Len(f.wrapper.attempted) :
                        /\ f.wrapper.attempted[i][1] = "_call_set_words"
                        /\ f.wrapper.attempted[i][2] = f.word
            /\ (f.result.kind = "returned") =>
                  /\ f.result.auto_selected = FALSE
                  /\ f.written /= <<>>

\* The word was found with the translations "ab" and "d", the hint was
\* "cd", and the write was made and returned.
NewTranslationAdded ==
    \E p \in Procs :
        /\ Found(p)
        /\ frame[p].word_data[1] = RecW
        /\ frame[p].translation_hint = <<"c", "d">>
        /\ frame[p].pc = "done"
        /\ frame[p].result.kind = "returned"
        /\ frame[p].written /= <<>>

(***************************************************************************)
(* Properties: the choice of the translation                               *)
(***************************************************************************)

\* get_translates has returned to invocation p.
Translated(p) == frame[p].translate_payload /= Nothing

\* The candidates invocation p read from the payload.
Candidates(p) == CandidatesOf(frame[p].translate_payload[1])

\* The similarity of the hint of invocation p and a candidate is at least
\* the threshold 0.8 (candidates without a text are not compared).
Similar(p, candidate) ==
    /\ CandidateText(candidate) /= <<>>
    /\ ScoreGE(Ratio(Lower(frame[p].translation_hint), Lower(CandidateText(candidate))),
               <<4, 5>>)

\* Every call of _call_set_words the add_word of invocation p has made
\* had this translation as its argument.
WritesOnly(p, translation) ==
    /\ frame[p].op = "write"
    /\ \A i \in 1..Len(frame[p].wrapper.attempted) :
          frame[p].wrapper.attempted[i] = <<"_call_set_words", frame[p].word, translation>>

\* C7: when the word was not found, there is no hint and get_translates
\* has returned a non-empty candidate list, add_word_with_hint takes the
\* first candidate, calls add_word exactly once, with that candidate, and
\* the outcome it returns has that candidate and auto_selected = True.
\* (What the write itself raises reaches the caller; the engine raises
\* nothing of its own.)
NewWordWithoutHintTakesFirstCandidate ==
    \A p \in Procs :
        LET f == frame[p] IN
        (/\ Translated(p)
         /\ ~Found(p)
         /\ ~Truthy(f.translation_hint)
         /\ Candidates(p) /= <<>>) =>
            \/ f.pc = "resolve"
            \/ /\ f.match = Some(Candidates(p)[1])
               /\ f.auto_selected
               /\ f.calls = <<"search", "translate", "write">>
               /\ WritesOnly(p, Candidates(p)[1])
               /\ \A i \in 1..Len(f.written) :
                     f.written[i] = TranslationBlock(Candidates(p)[1])
               /\ ~FailedInEngine(p)
               /\ (f.result.kind = "returned") =>
                     /\ f.result.translation_used = Candidates(p)[1]
                     /\ f.result.auto_selected = TRUE
                     /\ Len(f.written) >= 1

\* The word was not in the container, no hint was given, the remote
\* offered "d" and "Ab", and the outcome returned is the automatic choice
\* of "d".
FirstCandidateAdded ==
    \E p \in Procs :
        /\ ~Found(p)
        /\ frame[p].translation_hint = None
        /\ frame[p].translate_payload = Some([translations |-> <<CandD, CandTrOnly>>])
        /\ frame[p].pc = "done"
        /\ frame[p].result.kind = "returned"
        /\ frame[p].result.translation_used = CandD
        /\ frame[p].result.auto_selected = TRUE

\* C8: when there is no hint and get_translates has returned an empty
\* candidate list, add_word_with_hint raises the "no translation
\* candidates" error and writes nothing.
NoHintNoCandidatesFails ==
    \A p \in Procs :
        LET f == frame[p] IN
        (/\ Translated(p)
         /\ ~Truthy(f.translation_hint)
         /\ Candidates(p) = <<>>) =>
            /\ f.calls = <<"search", "translate">>
            /\ f.written = <<>>
            /\ \/ f.pc = "resolve"
               \/ FailedWith(p, "No translation candidates returned and no hint provided")

\* No hint, an empty candidate list, and the caller got the error.
NoTranslationRejected ==
    \E p \in Procs :
        /\ frame[p].translation_hint = None
        /\ frame[p].translate_payload = Some([translate |-> <<>>])
        /\ FailedWith(p, "No translation candidates returned and no hint provided")

\* C9: when a hint is given and some candidate get_translates returned has
\* a similarity to it of at least the threshold, the translation add_word
\* is called with is a candidate of the returned list, one whose similarity
\* is at least the threshold and is the highest of the list, the
\* translation block written carries that candidate's id, and
\* auto_selected = False.
HintMatchUsesRemoteCandidate ==
    \A p \in Procs :
        LET f == frame[p] IN
        (/\ Translated(p)
         /\ Truthy(f.translation_hint)
         /\ \E i \in 1..Len(Candidates(p)) : Similar(p, Candidates(p)[i])) =>
            \/ f.pc = "resolve"
            \/ /\ f.match /= Nothing
               /\ f.match[1] \in Range(Candidates(p))
               /\ Similar(p, f.match[1])
               /\ \A i \in 1..Len(Candidates(p)) :
                     CandidateText(Candidates(p)[i]) /= <<>> =>
                        ScoreGE(Ratio(Lower(f.translation_hint),
                                      Lower(CandidateText(f.match[1]))),
                                Ratio(Lower(f.translation_hint),
                                      Lower(CandidateText(Candidates(p)[i]))))
               /\ ~f.auto_selected
               /\ WritesOnly(p, f.match[1])
               /\ \A i \in 1..Len(f.written) : f.written[i].id = f.match[1].id
               /\ ~FailedInEngine(p)
               /\ (f.result.kind = "returned") =>
                     /\ f.result.translation_used = f.match[1]
                     /\ f.result.auto_selected = FALSE
                     /\ Len(f.written) >= 1

\* The hint "ab" and the candidates "abc" (similarity exactly 0.8) and
\* "d": the outcome returned has the remote candidate "abc", id 1001.
RemoteCandidateAdded ==
    \E p \in Procs :
        /\ frame[p].translation_hint = <<"a", "b">>
        /\ frame[p].translate_payload = Some([translate |-> <<CandAbc, CandD>>])
        /\ frame[p].pc = "done"
        /\ frame[p].result.kind = "returned"
        /\ frame[p].result.translation_used = CandAbc
        /\ frame[p].written[Len(frame[p].written)].id = 1001
        /\ frame[p].result.auto_selected = FALSE

\* C10: when a hint is given and no candidate get_translates returned has
\* a similarity to it of at least the threshold (an empty list included),
\* add_word_with_hint makes a translation of its own whose value and tr are
\* exactly the hint, calls add_word with it, and the outcome it returns has
\* auto_selected = False; it never raises the "no translation" error, nor
\* any other LinguaLeoError.
HintWithoutMatchWritesTheHint ==
    \A p \in Procs :
        LET f == frame[p] IN
        (/\ Translated(p)
         /\ Truthy(f.translation_hint)
         /\ \A i \in 1..Len(Candidates(p)) : ~Similar(p, Candidates(p)[i])) =>
            \/ f.pc = "resolve"
            \/ /\ f.match /= Nothing
               /\ f.match[1] \notin Range(Candidates(p))
               /\ DOMAIN f.match[1] = {"id", "value", "tr", "main", "selected"}
               /\ f.match[1].value = f.translation_hint
               /\ f.match[1].tr = f.translation_hint
               /\ f.match[1].id \in 0..(10 ^ 9 - 1)
               /\ ~f.auto_selected
               /\ f.calls = <<"search", "translate", "write">>
               /\ WritesOnly(p, f.match[1])
               /\ \A i \in 1..Len(f.written) : f.written[i].tr = f.translation_hint
               /\ ~FailedInEngine(p)
               /\ (f.result.kind = "returned") =>
                     /\ f.result.translation_used.value = f.translation_hint
                     /\ f.result.auto_selected = FALSE
                     /\ Len(f.written) >= 1

\* The hint " AB " and an empty candidate list: the outcome returned has a
\* translation made from the hint, written as " AB ".
CustomTranslationAdded ==
    \E p \in Procs :
        /\ frame[p].translation_hint = <<" ", "A", "B", " ">>
        /\ frame[p].translate_payload = Some([translate |-> <<>>])
        /\ frame[p].pc = "done"
        /\ frame[p].result.kind = "returned"
        /\ frame[p].result.translation_used.value = <<" ", "A", "B", " ">>
        /\ frame[p].written[Len(frame[p].written)].tr = <<" ", "A", "B", " ">>
        /\ frame[p].result.auto_selected = FALSE

(***************************************************************************)
(* Properties: outcomes, write requests and the order of the requests      *)
(***************************************************************************)

\* C11: in every outcome add_word_with_hint returns, auto_selected is True
\* if and only if there was no hint (None or "") and the candidate list
\* get_translates returned was not empty.
AutoSelectedIffNoHintAndCandidates ==
    \A p \in Procs :
        frame[p].result.kind = "returned" =>
            /\ Translated(p)
            /\ frame[p].result.auto_selected
                  <=> (~Truthy(frame[p].translation_hint) /\ Candidates(p) /= <<>>)

\* An outcome for a hint that matched a candidate of a non-empty list:
\* auto_selected is False.
MatchedOutcomeNotAutomatic ==
    \E p \in Procs :
        /\ frame[p].result.kind = "returned"
        /\ frame[p].translation_hint = <<"a", "b">>
        /\ frame[p].result.translation_used = CandTrOnly
        /\ Candidates(p) = <<CandD, CandTrOnly>>
        /\ frame[p].result.auto_selected = FALSE

\* C12, as stated: every translation block a write request of
\* add_word_with_hint carries has an id (a number, not None) and a display
\* text (tr) that is a non-empty str.
WrittenTranslationHasIdAndText ==
    \A p \in Procs :
        \A i \in 1..Len(frame[p].written) :
            /\ frame[p].written[i].id \in Nat
            /\ Truthy(frame[p].written[i].tr)

\* No hint, a first candidate whose value is "" and that has no tr: the
\* request is sent with tr = None.
TranslationWithoutTextWritten ==
    \E p \in Procs :
        /\ ~Truthy(frame[p].translation_hint)
        /\ frame[p].match = Some(CandNoText)
        /\ frame[p].written /= <<>>
        /\ frame[p].written[1] = [id |-> 1004, tr |-> None, main |-> 1, selected |-> 1]

\* The requests of invocation p that are not logins.
RECURSIVE WithoutAuth(_)
WithoutAuth(requests) ==
    IF requests = <<>> THEN <<>>
    ELSE IF Head(requests) = "auth" THEN WithoutAuth(Tail(requests))
    ELSE <<Head(requests)>> \o WithoutAuth(Tail(requests))

Rank(kind) == CASE kind = "search" -> 1 [] kind = "translate" -> 2 [] kind = "write" -> 3

\* C13: in every invocation the requests come in the order search,
\* candidate lookup, write (logins apart): a candidate lookup is sent only
\* when get_word_data has returned and the duplicate decision was "not a
\* duplicate", a write only when get_translates has returned; an
\* invocation that returns an outcome without having had to log in has
\* sent exactly three requests: one search, one lookup, one write.
RequestsInFixedOrder ==
    \A p \in Procs :
        LET f == frame[p]
            sent == WithoutAuth(f.requests)
        IN  /\ \A i \in 1..Len(sent) : \A j \in i..Len(sent) : Rank(sent[i]) <= Rank(sent[j])
            /\ \E n \in 0..3 : f.calls = SubSeq(<<"search", "translate", "write">>, 1, n)
            /\ (\E i \in 1..Len(sent) : sent[i] = "search") => f.calls /= <<>>
            /\ (\E i \in 1..Len(sent) : sent[i] = "translate") =>
                  /\ Len(f.calls) >= 2
                  /\ DuplicateDecision(f.word_data, f.translation_hint)
                        \in {"new_word", "new_translation"}
            /\ (\E i \in 1..Len(sent) : sent[i] = "write") =>
                  /\ Len(f.calls) = 3
                  /\ Translated(p)
            /\ (f.result.kind = "returned" /\ sent = f.requests) =>
                  f.requests = <<"search", "translate", "write">>

\* An outcome returned after one search, one lookup and one write.
ThreeRequestsOutcome ==
    \E p \in Procs :
        /\ frame[p].result.kind = "returned"
        /\ frame[p].requests = <<"search", "translate", "write">>
        /\ frame[p].search_status = Some("ok")

(***************************************************************************)
(* Properties: failures of the remote calls                                *)
(***************************************************************************)

\* C14: when the search answer has a status other than "ok", or cannot be
\* decoded, get_word_data returns None without raising and
\* add_word_with_hint goes on exactly as for a word that is not in the
\* dictionary: no duplicate error, get_translates next, and the choice of
\* the translation made from the candidates and the hint alone.
SearchNotOkIsNotFound ==
    \A p \in Procs :
        LET f == frame[p] IN
        (f.search_status /= Nothing /\ f.search_status[1] /= "ok") =>
            /\ f.word_data = Nothing
            /\ DuplicateDecision(f.word_data, f.translation_hint) = "new_word"
            /\ (f.op = "search") => (f.pc = "decide" /\ f.result = Pending)
            /\ (f.op /= "search") => (Len(f.calls) >= 2 /\ f.calls[2] = "translate")
            /\ ~FailedWith(p, "Word already exists in dictionary")
            /\ ~FailedWith(p, "Word with translation already exists")
            /\ (f.op = "write") =>
                  <<f.match, f.auto_selected>>
                      = ChooseTranslation(Candidates(p), f.translation_hint, hash_seed)

\* The word is in the container, the search answered with status "error",
\* and the invocation went on to return an outcome.
SearchErrorStatusTreatedAsAbsent ==
    \E p \in Procs :
        /\ frame[p].search_status = Some("error")
        /\ Len(remote) = 1
        /\ RemoteWordIs(remote[1], frame[p].word)
        /\ frame[p].result.kind = "returned"

\* C15, as stated: get_word_data never raises (what leaves
\* add_word_with_hint during the search is the engine's own LinguaLeoError
\* at most).
LookupNeverRaises ==
    \A p \in Procs :
        (frame[p].op = "search" /\ frame[p].result.kind = "raised") =>
            frame[p].result.error = "LinguaLeoError"

\* The wrapped search call of invocation p has ended in an exception.
SearchCallFailed(p) ==
    LET f == frame[p]
        w == f.wrapper
    IN  /\ f.op = "search"
        /\ f.pc \notin {"relogin", "retry"}
        /\ w.first_exc /= Nothing
        /\ (w.retry_exc /= Nothing \/ ~w.login_ok)

\* C15, as the code has it: once the search request has been sent,
\* get_word_data does not raise: whatever the request, the login made by
\* the wrapper or the retry raises (any HTTP error status, a request
\* error, an answer that does not decode) makes it return None.  The one
\* exception get_word_data lets through is that of the login which
\* ensure_authenticated makes, before the try block, when there are no
\* cookies.
LookupRaisesOnlyFromFirstLogin ==
    \A p \in Procs :
        LET f == frame[p] IN
        /\ (f.op = "search" /\ f.result.kind = "raised"
                /\ f.result.error /= "LinguaLeoError") =>
              /\ f.wrapper.attempted = <<>>
              /\ f.wrapper.logins = 0
              /\ f.result.error \in {"HTTPStatusError", "RequestError"}
              /\ ~DictTruthy(cookies)
        /\ SearchCallFailed(p) =>
              /\ f.pc = "decide"
              /\ f.word_data = Nothing
              /\ f.result = Pending

\* The search request got no response (RequestError): get_word_data has
\* returned None.
SearchRequestErrorGivesNone ==
    \E p \in Procs :
        /\ SearchCallFailed(p)
        /\ frame[p].wrapper.first_exc = Some(Exception("RequestError"))
        /\ frame[p].pc = "decide"
        /\ frame[p].word_data = Nothing

\* The transport failure the wrapped call of invocation p has ended in, if
\* any: what the retry raised, or what the first attempt raised when that
\* was not a re-authentication status.
TransportErrors == {"HTTPStatusError", "RequestError"}

EndedInTransportFailure(p) ==
    LET w == frame[p].wrapper IN
    \/ w.retry_exc /= Nothing /\ w.retry_exc[1].error \in TransportErrors
    \/ /\ w.retry_exc = Nothing
       /\ w.first_exc /= Nothing
       /\ w.first_exc[1].error \in TransportErrors
       /\ ~FirstFailedWith(p, {400, 401, 403})

TransportFailure(p) ==
    LET w == frame[p].wrapper IN
    IF w.retry_exc /= Nothing THEN w.retry_exc[1] ELSE w.first_exc[1]

OutcomeLeavesCookiesSaved ==
    \A p \in Procs :
        frame[p].result.kind = "returned" =>
            /\ cookie_file = cookies
            /\ \A k \in DOMAIN jar :
                  jar[k] /= "" => (k \in DOMAIN cookies /\ cookies[k] = jar[k])

\* An outcome has been returned and the file holds the session cookie the
\* server has set.
OutcomeWithSavedCookies ==
    \E p \in Procs :
        /\ frame[p].result.kind = "returned"
        /\ frame[p].wrapper.logins = 0
        /\ jar = [sid |-> "v2"]
        /\ cookies = [sid |-> "v2"]
        /\ cookie_file = [sid |-> "v2"]

\* C18, as stated: every change of the in-memory cookies is persisted: a
\* step that finds the cookie file equal to the in-memory cookies leaves
\* it equal to them.
EveryCookieChangeIsSaved ==
    [][(cookie_file = cookies) => (cookie_file' = cookies')]_vars

\* In this step a login returns, or add_word_with_hint returns its outcome.
SavingStep ==
    \E p \in Procs :
        \/ /\ frame[p].pc \in {"ensure_login", "relogin"}
           /\ frame'[p].pc \in {"attempt", "retry"}
        \/ /\ frame[p].pc = "finish"
           /\ frame'[p].result.kind = "returned"

\* C18, as the code has it: the cookie file is rewritten, with the
\* in-memory cookies, when a login returns and when add_word_with_hint
\* returns its outcome, and at no other time: the cookies a search, a
\* candidate lookup or a write answer sets change the in-memory cookies
\* only, and stay unsaved when the invocation fails afterwards.
CookiesSavedOnlyAfterLoginAndOutcome ==
    [][IF SavingStep THEN cookie_file' = cookies' ELSE cookie_file' = cookie_file]_vars

\* The invocation has failed after a search or lookup answer set the
\* session cookie: the in-memory cookies have it, the file does not.
RotatedCookiesLeftUnsaved ==
    \E p \in Procs :
        /\ frame[p].pc = "done"
        /\ frame[p].result.kind = "raised"
        /\ frame[p].op \in {"search", "translate"}
        /\ cookies = [sid |-> "v2"]
        /\ cookie_file = NoCookies

\* C19, as stated: when a login returns without error, the in-memory
\* cookies are not empty.
LoginLeavesCookies ==
    [][\A p \in Procs :
          (/\ frame[p].pc \in {"ensure_login", "relogin"}
           /\ frame'[p].pc \in {"attempt", "retry"}) => DictTruthy(cookies')]_vars

\* The login made by ensure_authenticated has returned and the client
\* goes on to its request with no cookies at all.
LoggedInWithoutCookies ==
    \E p \in Procs :
        /\ frame[p].pc = "attempt"
        /\ frame[p].wrapper.attempted = <<>>
        /\ ~DictTruthy(cookies)
        /\ cookie_file = NoCookies

\* C20, as stated: the client's initial cookies have the keys of the
\* cookie file and of the cookie string, with the cookie string's value
\* for every key the cookie string has and the file's value for the rest.
CookieStringOverridesFile ==
    (invocations = 0) =>
        LET cs == env.cookie_string IN
        /\ DOMAIN cookies = DOMAIN cs \cup DOMAIN cookie_file
        /\ \A k \in DOMAIN cs : cookies[k] = cs[k]
        /\ \A k \in DOMAIN cookie_file \ DOMAIN cs : cookies[k] = cookie_file[k]

\* A client just constructed with the cookie string "sid=v1" and a cookie
\* file that has sid = v2: its cookies have the file's value.
FileOverridesCookieString ==
    /\ invocations = 0
    /\ env.cookie_string = [sid |-> "v1"]
    /\ cookie_file = [sid |-> "v2"]
    /\ cookies = [sid |-> "v2"]

(***************************************************************************)
(* Properties: the matcher                                                 *)
(***************************************************************************)

\* The candidates of the observed select_best_translation call that have a
\* display text, by position, and the score of each against the desired text.
Scored == {i \in 1..Len(call.candidates) : CandidateText(call.candidates[i]) /= <<>>}

Score(i) == Ratio(Lower(call.desired), Lower(CandidateText(call.candidates[i])))

\* Candidate i has the highest score.
Top(i) == i \in Scored /\ \A j \in Scored : ScoreGE(Score(i), Score(j))

\* C26: select_best_translation returns a candidate with the highest
\* similarity score (among the candidates that have a display text) if and
\* only if the desired text is not None or empty and that score is at
\* least the threshold; otherwise (every score below the threshold, no
\* candidates, no desired text) it returns none.
SelectBestReturnsTopIffAtThreshold ==
    call.fn = "select_best_translation" =>
        IF /\ Truthy(call.desired)
           /\ \E i \in Scored : Top(i) /\ ScoreGE(Score(i), call.threshold)
        THEN \E i \in Scored : Top(i) /\ call.result = Some(call.candidates[i])
        ELSE call.result = Nothing

\* "abc" scores exactly 0.8 against "ab" and is returned at the default
\* threshold.
CandidateAtThresholdReturned ==
    /\ call.fn = "select_best_translation"
    /\ call.candidates = <<[id |-> 7, value |-> <<"d">>], [id |-> 3, tr |-> <<"a", "b", "c">>]>>
    /\ call.desired = <<"a", "b">>
    /\ call.threshold = DEFAULT_THRESHOLD
    /\ call.result = Some([id |-> 3, tr |-> <<"a", "b", "c">>])

\* C27: select_best_translation never returns a candidate whose display
\* text (value, else tr) is empty, and what it returns is one of the
\* candidates it was given.
SelectBestSkipsEmptyText ==
    (call.fn = "select_best_translation" /\ call.result /= Nothing) =>
        /\ CandidateText(call.result[1]) /= <<>>
        /\ call.result[1] \in Range(call.candidates)

\* With threshold 0.0 a candidate without text comes first and one that
\* scores 0.0 second: the second is returned.
EmptyTextCandidatePassedOver ==
    /\ call.fn = "select_best_translation"
    /\ call.candidates = <<[id |-> 5, value |-> <<>>], [id |-> 7, value |-> <<"d">>]>>
    /\ call.desired = <<"a", "b">>
    /\ call.threshold = <<0, 1>>
    /\ call.result = Some([id |-> 7, value |-> <<"d">>])

\* C28: when several candidates share the highest score,
\* select_best_translation returns the first of them in the list.
SelectBestKeepsFirstOfTies ==
    (call.fn = "select_best_translation" /\ call.result /= Nothing) =>
        \E i \in Scored :
            /\ Top(i)
            /\ \A j \in 1..(i - 1) : ~Top(j)
            /\ call.result = Some(call.candidates[i])

\* "AB" before "ab", desired "ab": both score 1.0, the first is returned.
FirstOfTwoEqualScoresReturned ==
    /\ call.fn = "select_best_translation"
    /\ call.candidates = <<[id |-> 2, value |-> <<"A", "B">>], [id |-> 1, value |-> <<"a", "b">>]>>
    /\ call.desired = <<"a", "b">>
    /\ call.result = Some([id |-> 2, value |-> <<"A", "B">>])

\* The k-th smallest element of a set of numbers, and the elements of xs
\* at the positions of keep, in order.
Kth(S, k) == CHOOSE x \in S : Cardinality({y \in S : y <= x}) = k

Picked(xs, keep) == [n \in 1..Cardinality(keep) |-> xs[Kth(keep, n)]]

\* s without its leading and trailing spaces.
Trimmed(s) ==
    LET ns == {i \in 1..Len(s) : s[i] /= " "}
    IN  IF ns = {} THEN <<>>
        ELSE SubSeq(s, Kth(ns, 1), Kth(ns, Cardinality(ns)))

\* The pieces of s between its semicolons.
Segments(s) ==
    LET seps == {0} \cup {i \in 1..Len(s) : s[i] = ";"} \cup {Len(s) + 1}
    IN  [k \in 1..(Cardinality(seps) - 1) |->
            SubSeq(s, Kth(seps, k) + 1, Kth(seps, k + 1) - 1)]

\* The trimmed, non-empty entries of a list of texts.
Entries(texts) ==
    LET trimmed == [i \in 1..Len(texts) |-> Trimmed(texts[i])]
    IN  Picked(trimmed, {i \in 1..Len(texts) : trimmed[i] /= <<>>})

\* The entries of the combined field, then those of the translations list.
AllEntries(word_data) ==
    LET combined == IF "combinedTranslation" \in DOMAIN word_data
                       /\ word_data.combinedTranslation /= None
                    THEN word_data.combinedTranslation ELSE <<>>
        trans_list == IF "translations" \in DOMAIN word_data
                      THEN word_data.translations ELSE <<>>
        texts == [i \in 1..Len(trans_list) |->
                     IF "value" \in DOMAIN trans_list[i] /\ trans_list[i].value /= <<>>
                     THEN trans_list[i].value
                     ELSE IF "tr" \in DOMAIN trans_list[i] THEN trans_list[i].tr ELSE <<>>]
    IN  Entries(IF combined = <<>> THEN <<>> ELSE Segments(combined)) \o Entries(texts)

\* C29: extract_existing_translations returns the trimmed, non-empty
\* entries of the semicolon-separated combined field followed by those of
\* the structured translations list, each entry kept only where no earlier
\* entry equals it up to case: first-seen casing, first-seen order.
ExtractKeepsFirstSeenEntries ==
    call.fn = "extract_existing_translations" =>
        LET raw == AllEntries(call.word_data)
        IN  call.result =
                Picked(raw, {i \in 1..Len(raw) :
                                \A j \in 1..(i - 1) : Lower(raw[j]) /= Lower(raw[i])})

\* "a; b; A" gives ["a", "b"].
LaterCasingDropped ==
    /\ call.fn = "extract_existing_translations"
    /\ call.word_data = [combinedTranslation |-> <<"a", ";", " ", "b", ";", " ", "A">>]
    /\ call.result = << <<"a">>, <<"b">> >>

\* C30: translation_exists(existing, hint) is true if and only if some
\* element of existing equals the hint after lowercasing and trimming
\* both: a proper prefix or an extension of an existing translation does
\* not count, and nothing exists in the empty list.
TranslationExistsIsExactMembership ==
    call.fn = "translation_exists" =>
        (call.result <=>
            \E i \in 1..Len(call.existing_translations) :
                Trimmed(Lower(call.existing_translations[i])) = Trimmed(Lower(call.hint)))

\* "a" is a proper prefix of the one existing translation "aB": not found.
PrefixOfExistingIsNotFound ==
    /\ call.fn = "translation_exists"
    /\ call.existing_translations = << <<"a", "B">> >>
    /\ call.hint = <<" ", "A", " ">>
    /\ call.result = FALSE

(***************************************************************************)
(* Properties: the word search                                             *)
(***************************************************************************)

\* The groups of the observed search answer, the words of group g, and the
\* positions <<g, w>> of all its records.
SearchData == IF "data" \in DOMAIN call.response THEN call.response.data ELSE <<>>

WordsOf(g) == IF "words" \in DOMAIN SearchData[g] THEN SearchData[g].words ELSE <<>>

Positions ==
    UNION {{<<g, w>> : w \in 1..Len(WordsOf(g))} : g \in 1..Len(SearchData)}

\* The first of a non-empty set of positions, groups and their words in order.
FirstPosition(hits) ==
    CHOOSE pos \in hits :
        \A other \in hits : pos[1] < other[1] \/ (pos[1] = other[1] /\ pos[2] <= other[2])

\* The query and a field of the record at pos, lowercased and trimmed.
Query == Trimmed(Lower(call.word))

Field(pos, name) == Trimmed(Lower(WordsOf(pos[1])[pos[2]][name]))

HasField(pos, name) == name \in DOMAIN WordsOf(pos[1])[pos[2]]

\* What the search returns when hits are the positions of the matching records.
SearchResultIs(hits) ==
    IF \/ "status" \notin DOMAIN call.response
       \/ call.response.status /= "ok"
       \/ SearchData = <<>>
       \/ hits = {}
    THEN call.result = Nothing
    ELSE call.result = Some(WordsOf(FirstPosition(hits)[1])[FirstPosition(hits)[2]])

\* C25, as stated: the search returns the first record, groups and their
\* words in order, whose wordValue or wordLemmaValue equals the query after
\* lowercasing and trimming both, and not-found exactly when the status
\* is not ok, there are no groups, or no record matches.
SearchReturnsFirstRecordEqualToQuery ==
    call.fn = "get_word_data" =>
        SearchResultIs({pos \in Positions :
            \/ HasField(pos, "wordValue") /\ Field(pos, "wordValue") = Query
            \/ HasField(pos, "wordLemmaValue") /\ Field(pos, "wordLemmaValue") = Query})

\* C25, as the code has it: a lemma counts only when it is not blank.
SearchReturnsFirstRecordWithValueOrNonBlankLemma ==
    call.fn = "get_word_data" =>
        SearchResultIs({pos \in Positions :
            \/ HasField(pos, "wordValue") /\ Field(pos, "wordValue") = Query
            \/ /\ HasField(pos, "wordLemmaValue")
               /\ Field(pos, "wordLemmaValue") /= <<>>
               /\ Field(pos, "wordLemmaValue") = Query})

\* A blank query against a record whose lemma is blank: not found.
BlankLemmaDoesNotMatchBlankQuery ==
    /\ call.fn = "get_word_data"
    /\ call.word = <<" ">>
    /\ call.response =
          [status |-> "ok",
           data |-> <<[groupName |-> "g",
                       words |-> <<[id |-> 1, wordValue |-> <<"W", " ">>,
                                    wordLemmaValue |-> <<" ">>]>>]>>]
    /\ call.result = Nothing

(***************************************************************************)
(* Properties: cookie file, constructor and login                          *)
(***************************************************************************)

\* The file is absent, or is no JSON object (not UTF-8, no JSON, no dict).
AbsentOrMalformed(file) ==
    \/ file.kind \in {"absent", "bytes"}
    \/ file.kind = "text" /\ json_loads(file.text).kind /= "dict"

\* C21, as stated: for an absent or malformed cookie file
\* _load_cookie_file raises nothing and returns no cookies, and a client
\* constructed with such a file and no cookie string has no cookies.
BadCookieFileGivesNoCookies ==
    /\ (call.fn = "_load_cookie_file" /\ AbsentOrMalformed(call.file)) =>
           call.result = Returned(<<>>)
    /\ (/\ call.fn = "__init__"
        /\ Truthy(call.email) /\ Truthy(call.password)
        /\ call.cookie_string = None
        /\ AbsentOrMalformed(call.file)) =>
           (call.result.kind = "constructed" /\ call.result.cookies = <<>>)

\* The constructor, given a cookie file whose bytes are not UTF-8, raises
\* UnicodeDecodeError.
UndecodableCookieFileFailsConstructor ==
    /\ call.fn = "__init__"
    /\ call.email = <<"e">> /\ call.password = <<"e">>
    /\ call.cookie_string = None
    /\ call.file = UndecodableFile
    /\ call.result = Failed("UnicodeDecodeError")

\* C22: after save(C) the file holds exactly C whatever it held before
\* (loading it returns C, so no earlier key survives), and saving C again
\* leaves the file as it is.
SaveOverwritesAndRoundTrips ==
    call.fn = "_save_cookie_file" =>
        /\ _load_cookie_file(call.result) = Returned(call.cookies)
        /\ call.result = write_text(AbsentFile, call.cookies)
        /\ write_text(call.result, call.cookies) = call.result

\* The file had u = "v"; saved over it is s = '"': the file then decodes
\* to s = '"' alone.
SavedOverOtherCookies ==
    /\ call.fn = "_save_cookie_file"
    /\ _load_cookie_file(call.file) = Returned([k \in {<<"u">>} |-> <<"v">>])
    /\ call.cookies = [k \in {<<"s">>} |-> <<"\"">>]
    /\ _load_cookie_file(call.result) = Returned([k \in {<<"s">>} |-> <<"\"">>])
    /\ call.result /= call.file

\* C23: constructing the client without an email or without a password
\* raises LinguaLeoError; login on a client whose email or password is
\* missing raises LinguaLeoError and sends no request; login raises when
\* the auth answer has a non-2xx status.
MissingOrRejectedCredentialsRaise ==
    /\ (call.fn = "__init__" /\ (~Truthy(call.email) \/ ~Truthy(call.password))) =>
           (call.result.kind = "raised" /\ call.result.error = "LinguaLeoError")
    /\ (call.fn = "login" /\ (~Truthy(call.email) \/ ~Truthy(call.password))) =>
           /\ call.result.outcome.kind = "raised"
           /\ call.result.outcome.error = "LinguaLeoError"
           /\ call.result.sent = <<>>
    /\ (/\ call.fn = "login"
        /\ Truthy(call.email) /\ Truthy(call.password)
        /\ call.response.kind = "status_error") =>
           /\ call.result.outcome.kind = "raised"
           /\ call.result.outcome.error = "HTTPStatusError"
           /\ call.result.outcome.status = call.response.status
           /\ call.result.sent = <<"auth">>

\* login on a client whose email has been set to None: LinguaLeoError, and
\* no request.
LoginWithoutEmailSendsNothing ==
    /\ call.fn = "login"
    /\ call.email = None /\ call.password = <<"e">>
    /\ call.result.outcome.kind = "raised"
    /\ call.result.outcome.error = "LinguaLeoError"
    /\ call.result.sent = <<>>

(***************************************************************************)
(* Properties: no cached search                                            *)
(***************************************************************************)

\* C24: every add_word_with_hint invocation, the first and the later ones,
\* has sent a search request of its own before it decides, and what it
\* decides on is that search's answer: when the answer has status ok and
\* the container has the word (added by whatever means since the last
\* invocation), the invocation has the word's data.
EveryInvocationSearchesAfresh ==
    \A p \in Procs :
        frame[p].pc = "decide" =>
            /\ \E i \in 1..Len(frame[p].requests) : frame[p].requests[i] = "search"
            /\ (/\ frame[p].search_status = Some("ok")
                /\ \E i \in 1..Len(remote) : RemoteWordIs(remote[i], frame[p].word)) =>
                   frame[p].word_data /= Nothing

\* The second invocation decides on the record that was added elsewhere
\* after the first invocation, which ran against an empty container.
SecondInvocationSeesWordAddedElsewhere ==
    \E p \in Procs :
        /\ invocations = 2
        /\ frame[p].pc = "decide"
        /\ frame[p].requests = <<"search">>
        /\ frame[p].word_data = Some(AddedElsewhereRecord(frame[p].word))

(***************************************************************************)
(* Properties: what a failed invocation leaves behind                      *)
(***************************************************************************)

\* Invocation p has sent a request of this kind.
HasSent(p, kind) == \E i \in 1..Len(frame[p].requests) : frame[p].requests[i] = kind

\* Invocation p failed with one of the two "already exists" errors.
FailedAsDuplicate(p) ==
    \/ FailedWith(p, "Word already exists in dictionary")
    \/ FailedWith(p, "Word with translation already exists")

\* Invocation p failed because there was neither a hint nor a candidate.
FailedWithoutTranslation(p) ==
    FailedWith(p, "No translation candidates returned and no hint provided")

\* C35: an add_word_with_hint invocation that has failed with an "already
\* exists" error or with the no-translation error has sent no write
\* request, and one that failed as a duplicate has sent no candidate lookup
\* either; and no step of an invocation that has sent no write request
\* changes the remote container.
FailedInvocationWroteNothing ==
    /\ [](\A p \in Procs :
            /\ (FailedAsDuplicate(p) \/ FailedWithoutTranslation(p)) =>
                   /\ ~HasSent(p, "write")
                   /\ frame[p].written = <<>>
            /\ FailedAsDuplicate(p) =>
                   /\ ~HasSent(p, "translate")
                   /\ frame[p].calls = <<"search">>)
    /\ [][\A p \in Procs :
            (frame'[p] /= frame[p] /\ ~HasSent(p, "write")') => remote' = remote]_vars

\* The second invocation failed as a duplicate after one search, against a
\* container that has the word.
DuplicateFailureAfterOneSearch ==
    \E p \in Procs :
        /\ invocations = 2
        /\ FailedAsDuplicate(p)
        /\ frame[p].requests = <<"search">>
        /\ remote /= <<>>

\* The remote container has the word of invocation p.
WordPresent(p) == \E i \in 1..Len(remote) : RemoteWordIs(remote[i], frame[p].word)

\* C36: an invocation without a hint, for a word the remote container has,
\* never sends a write request, whatever the search endpoint answers: no
\* step of such an invocation sends its first write.
NoWriteForPresentWordWithoutHint ==
    [][\A p \in Procs :
          (/\ ~Truthy(frame[p].translation_hint)
           /\ WordPresent(p)
           /\ ~HasSent(p, "write")) => ~HasSent(p, "write")']_vars

\* An invocation without a hint whose search got no answer it could decode
\* has sent a write for a word the container has.
PresentWordWrittenAfterFailedSearch ==
    \E p \in Procs :
        /\ ~Truthy(frame[p].translation_hint)
        /\ frame[p].search_status = Nothing
        /\ frame[p].requests = <<"search", "translate", "write">>
        /\ frame[p].pc = "finish"
        /\ remote /= <<>> /\ remote[1].wordLemmaValue = RecW.wordLemmaValue

(***************************************************************************)
(* Properties: termination and the number of requests                      *)
(***************************************************************************)

\* The requests one gateway operation can send: an initial login (when
\* there are no cookies), the attempt, a login again, the retry; or any
\* beginning of that.
OperationLogs(kind) ==
    {SubSeq(<<"auth", kind, "auth", kind>>, 1, n) : n \in 0..4}
    \cup {SubSeq(<<kind, "auth", kind>>, 1, n) : n \in 0..3}

\* The log is that of a search, then a candidate lookup, then a write.
ThreeOperationsLog(requests) ==
    \E i \in 0..Len(requests) : \E j \in i..Len(requests) :
        /\ SubSeq(requests, 1, i) \in OperationLogs("search")
        /\ SubSeq(requests, i + 1, j) \in OperationLogs("translate")
        /\ SubSeq(requests, j + 1, Len(requests)) \in OperationLogs("write")

\* C37: every add_word_with_hint invocation ends (it returns an outcome or
\* raises) whatever the remote answers, and the requests it has sent are
\* those of at most three gateway operations of at most four requests
\* each (initial login, attempt, login again, retry): at most twelve.
InvocationEndsWithinTwelveRequests ==
    /\ [](\A p \in Procs :
            /\ ThreeOperationsLog(frame[p].requests)
            /\ Len(frame[p].requests) <= 12)
    /\ \A p \in Procs : (frame[p].pc \notin {"idle", "done"}) ~> (frame[p].pc = "done")

\* An invocation has returned its outcome after twelve requests.
OutcomeAfterTwelveRequests ==
    \E p \in Procs :
        /\ frame[p].pc = "done"
        /\ frame[p].result.kind = "returned"
        /\ Len(frame[p].requests) = 12

(***************************************************************************)
(* Properties: interleaved invocations                                     *)
(***************************************************************************)

\* The invocations that have sent a write request.
Writers == {p \in Procs : frame[p].written /= <<>>}

FailedLoginLeavesCookiesAndFile ==
    (call.fn = "login" /\ call.result.outcome.kind = "raised") =>
        /\ call.result.cookies = call.cookies
        /\ call.result.saved = Nothing

\* A client that has a session cookie and credentials is refused by the
\* auth endpoint and still has the cookie.
RejectedLoginKeepsSessionCookie ==
    /\ call.fn = "login"
    /\ Truthy(call.email) /\ Truthy(call.password)
    /\ call.response = [kind |-> "status_error", status |-> 401]
    /\ call.cookies = [sid |-> "v1"]
    /\ call.result.outcome.kind = "raised"
    /\ call.result.cookies = [sid |-> "v1"]

(***************************************************************************)
(* Properties: the HTTP client handle                                      *)
(***************************************************************************)

\* Invocation p is inside a gateway method, past its _ensure_client.
NeedsHandle(p) == frame[p].pc \in {"ensure_login", "attempt", "relogin", "retry"}

\* C34: an invocation that is inside a gateway method has a handle; a
\* handle comes into being only in a step of __aenter__ or of a gateway
\* method (the first step of an invocation's gateway call), and the new
\* client's jar is the credential set of that moment; __aenter__ leaves a
\* handle; close() and __aexit__ leave none and touch nothing else of the
\* session; close() on a client without a handle changes nothing.
HandleCreatedWhenNeededAndDroppedByClose ==
    /\ [](\A p \in Procs : NeedsHandle(p) => client = "open")
    /\ [][(client = "None" /\ client' = "open") =>
              /\ AEnter \/ \E p \in Procs : frame[p].pc = "ensure" /\ NeedsHandle(p)'
              /\ jar' = cookies]_vars
    /\ [][AEnter => client' = "open"]_vars
    /\ [][Close => (client' = "None" /\ cookies' = cookies /\ cookie_file' = cookie_file)]_vars
    /\ [][(client = "open" /\ client' = "None") => Close]_vars
    /\ [][CloseOnClosed => (client' = "None" /\ UNCHANGED engine)]_vars

\* A second invocation is about to make its gateway call on a client that
\* holds cookies and was closed after the first invocation.
GatewayCallOnClosedClient ==
    /\ invocations = 2
    /\ frame[1].pc = "ensure"
    /\ client = "None"
    /\ DictTruthy(cookies)

\* C32: ensure_authenticated calls login exactly when the client has no
\* cookies, and that login sends the auth request; when the client has
\* cookies, ensure_authenticated sends no request and changes nothing but
\* the jar of the HTTP client, which becomes a copy of the cookies.
EnsureAuthenticatedLogsInIffNoCookies ==
    /\ [][\A p \in Procs :
            (frame[p].pc = "ensure" /\ frame'[p] /= frame[p]) =>
               /\ frame'[p].requests = frame[p].requests
               /\ UNCHANGED <<cookies, cookie_file, remote>>
               /\ frame'[p].pc = IF DictTruthy(cookies) THEN "attempt" ELSE "ensure_login"
               /\ DictTruthy(cookies) => jar' = cookies]_vars
    /\ [][\A p \in Procs :
            (frame[p].pc = "ensure_login" /\ frame'[p] /= frame[p]) =>
               /\ ~DictTruthy(cookies)
               /\ env.traced => frame'[p].requests = Append(frame[p].requests, "auth")]_vars

\* A later invocation on a client that has cookies is past
\* ensure_authenticated without having sent a request; the jar holds the
\* cookies.
AuthenticatedWithoutRequest ==
    /\ env.traced
    /\ invocations = 2
    /\ frame[1].pc = "attempt"
    /\ frame[1].op = "search"
    /\ frame[1].requests = <<>>
    /\ DictTruthy(cookies)
    /\ jar = cookies

(***************************************************************************)
(* Properties: the id of a custom translation                              *)
(***************************************************************************)

\* C33: the ids minted in one process are a function of the hint (a hint
\* that comes again gets the id it got before), and every id is an
\* integer with 0 <= id < 10^9.
CustomIdIsStableAndInRange ==
    /\ \A x \in Minted : \A y \in Minted : x[1] = y[1] => x[2] = y[2]
    /\ \A x \in Minted : x[2] \in Int /\ 0 <= x[2] /\ x[2] < 10 ^ 9
    /\ call.fn = "custom_translation" =>
          /\ call.result.id \in {x[2] : x \in {y \in Minted : y[1] = call.translation_hint}}
          /\ call.result.value = call.translation_hint

\* The process has minted ids for all the hints, among them one whose hash
\* is negative and one whose hash is not.
IdsMintedForNegativeAndPositiveHashes ==
    /\ call.fn = "custom_translation"
    /\ {x[1] : x \in Minted} = IdHints
    /\ \E x \in Minted : PyHash(hash_seed, x[1]) < 0
    /\ \E x \in Minted : PyHash(hash_seed, x[1]) > 0
    /\ Cardinality(Minted) = Cardinality(IdHints)

(***************************************************************************)
(* Properties: the chat layer                                              *)
(***************************************************************************)

\* C31: process_single_word reports success (True, the word, the text of
\* the translation used, the auto-selected flag, no status) when
\* add_word_with_hint adds the word, status "exists" exactly when it fails
\* with a LinguaLeoError whose message mentions "already exists", and
\* status "error" for every other failure.
ProcessSingleWordReportsThreeOutcomes ==
    call.fn = "process_single_word" =>
        LET outcome == call.outcome
            duplicate == /\ outcome.kind = "raised"
                         /\ outcome.error = "LinguaLeoError"
                         /\ MentionsAlreadyExists(outcome.message)
        IN  /\ outcome.kind = "returned" =>
                  call.result = <<TRUE, call.word,
                                  Or(Get(outcome.translation_used, "value"),
                                     Get(outcome.translation_used, "tr")),
                                  outcome.auto_selected, None>>
            /\ (call.result[5] = "exists") <=> duplicate
            /\ (outcome.kind = "raised" /\ ~duplicate) => call.result[5] = "error"

\* A word that add_word_with_hint would add is reported as an error.
AddedWordReportedAsError ==
    /\ call.fn = "process_single_word"
    /\ call.outcome.kind = "returned"
    /\ call.result = <<FALSE, call.word, None, FALSE, "error">>

====
